---- MODULE Spec2Model ----
(***************************************************************************)
(* Model of the anomaly-scoring core of SIEM-Anomaly-Detector-ML:          *)
(*   - backend/ml/ensemble.py      AnomalyEnsemble, get_ensemble           *)
(*   - backend/ml/model_loader.py  ModelLoader (prediction service)        *)
(*   - backend/db/cache.py         Redis-backed streaming aggregator       *)
(*   - backend/ml/features.py      FeatureEngineer.extract                 *)
(*                                                                         *)
(* Fixed point: sub-scores and risk scores are in thousandths (1.0 is      *)
(* 1000), ensemble weights in ten-thousandths (1.0 is 10000), so a         *)
(* weighted sum is in units of 1e-7 (1.0 is 10000000).  Distances are in   *)
(* tenths.  Time is in whole seconds, as int(timestamp.timestamp()).       *)
(***************************************************************************)
EXTENDS Integers, Sequences, FiniteSets, TLC

VARIABLES
    \* ---- model store / model core / prediction service ----
    settings_weights,   \* settings.ensemble_weights_list (validated at construction)
    files,              \* the model directory: path -> artifact content
    saveClock,          \* datetime.now() at one-second resolution, as save() reads it
    nextVer,            \* identity of the next training run's fitted parameters
    ens,                \* an AnomalyEnsemble instance held by a training script
    ensOut,             \* outcome of the last AnomalyEnsemble.predict
    global_ensemble,    \* ensemble.py _global_ensemble
    getOut,             \* outcome of the last get_ensemble()
    ldr,                \* the ModelLoader singleton's fields
    loadPc, loadLoc,    \* the thread running ModelLoader.load_model
    loadOut,            \* outcome of the last load_model
    predPc, predLoc,    \* the thread running ModelLoader.predict
    predOut,            \* outcome of the last ModelLoader.predict
    loadCount,          \* load_model calls started so far
    origin,             \* per loader field, the load_model call that assigned it (0: __init__)
    \* ---- streaming aggregator (db/cache.py) and feature extraction ----
    redis_client,       \* cache.py _redis_client: "none" or "set"
    serverUp,           \* whether the Redis server answers commands
    redis,              \* the server's data: sorted sets, sets and key expiry times
    now,                \* the wall clock, whole seconds
    recorded,           \* per sorted-set key, how many ZADDs were issued per timestamp
    opCount,            \* calls started so far
    callPc, callArg,    \* the coroutines inside record_* or extract: position, arguments
    callLoc,            \* their local values
    callOut,            \* what each last returned or raised
    qOut,               \* outcome of the last window query made directly
    \* ---- construction of the ModelLoader singleton ----
    cls_instance,       \* ModelLoader._instance: an object, or 0 for None
    model_loader,       \* model_loader.py _model_loader: an object, or 0 for None
    objs,               \* the ModelLoader objects created so far
    thr,                \* the threads inside ModelLoader() or get_model_loader()
    handed,             \* the instances handed to callers; whether loaded components were reset
    \* ---- the analysis endpoint (api/routes/analysis.py) and its database ----
    settings_thresholds,   \* settings.alert_threshold_low / _medium / _high
    async_session_factory, \* database.py _async_session_factory: "none" or "set"
    db_rows,               \* committed rows: how many anomalies, how many logs
    anaCount,              \* requests handled so far
    anaOut,                \* what the last analyze_log call answered
    parsed_log,            \* the dict handed to extract: per field absent, None or a value
    featOut                \* how the last extract on it ended

modelVars == <<settings_weights, files, saveClock, nextVer, ens, ensOut,
               global_ensemble, getOut, ldr, loadPc, loadLoc, loadOut,
               predPc, predLoc, predOut, loadCount, origin>>

aggVars == <<redis_client, serverUp, redis, now, recorded, opCount,
             callPc, callArg, callLoc, callOut, qOut>>

ctorVars == <<cls_instance, model_loader, objs, thr, handed>>

apiVars == <<settings_thresholds, async_session_factory, db_rows, anaCount, anaOut,
             parsed_log, featOut>>

vars == <<modelVars, aggVars, ctorVars, apiVars>>

-----------------------------------------------------------------------------
\* Bounds of the model

MaxFiles == 2          \* seconds of save-clock, i.e. artifact paths ensemble_<ts>.joblib
MaxVer == 2            \* training runs
MaxLabel == 1          \* DBSCAN cluster labels 0..MaxLabel
MaxVecId == 2          \* feature vectors fed to predict
MaxLoads == 2          \* load_model calls
MaxCalls == 2          \* coroutines inside record_* or extract at one time
MaxOps == 2            \* calls of record_* started in one run
MaxExtracts == 2       \* calls of extract in one run
MaxThreads == 2        \* threads calling ModelLoader() / get_model_loader()
MaxCtorCalls == 3      \* such calls in one run
MaxAnalyses == 2       \* requests to /logs/analyze in one run

Paths == 1..MaxFiles
Labels == 0..MaxLabel

\* Feature vectors, by what the fitted sub-models answer for them:
\* 0 is the all-zero vector, MaxVecId an extreme-valued one.
Vectors == 0..MaxVecId
ExtremeVec == MaxVecId

-----------------------------------------------------------------------------
\* Fixed-point units

One == 1000            \* 1.0 as a score
WOne == 10000          \* 1.0 as a weight
FOne == One * WOne     \* 1.0 as a weighted sum

-----------------------------------------------------------------------------
\* Configuration (backend/config.py)

Sum3(w) == w[1] + w[2] + w[3]

Abs(n) == IF n < 0 THEN -n ELSE n

\* Settings.validate_ensemble_weights: three values, abs(sum - 1.0) < 0.001
validate_ensemble_weights(w) == Abs(Sum3(w) - WOne) < WOne \div 1000

\* Weight triples tried as ENSEMBLE_WEIGHTS (ten-thousandths)
WeightSamples ==
    { <<5000, 3000, 2000>>,      \* the default "0.5,0.3,0.2"
      <<0, 0, 10009>>,           \* sums to 1.0009
      <<15000, -3000, -2000>>,   \* sums to 1.0 with negative entries
      <<5000, 3000, 3000>> }     \* sums to 1.1

\* settings.alert_threshold_medium, default 0.6
alert_threshold_medium == 600

\* settings.alert_threshold_high, default 0.8
alert_threshold_high == 800

\* settings.alert_threshold_low, default 0.4
alert_threshold_low == 400

\* settings.dbscan_eps, default 1.5 (tenths)
dbscan_eps == 15

-----------------------------------------------------------------------------
\* Values

\* A sub-model or scaler object: ver identifies the training run that fitted
\* it (0 with fitted = FALSE and eps = 0 is Python's None; ver = 0 with
\* eps > 0 is a constructed, never fitted estimator).
NoneComp == [ver |-> 0, fitted |-> FALSE, eps |-> 0, isNone |-> TRUE]

\* IsolationForest(...), GaussianMixture(...), StandardScaler(): constructed, unfitted
FreshComp == [ver |-> 0, fitted |-> FALSE, eps |-> 0, isNone |-> FALSE]

\* DBSCAN(eps=dbscan_eps, ...)
FreshDbscan(e) == [ver |-> 0, fitted |-> FALSE, eps |-> e, isNone |-> FALSE]

\* est.fit(X) of training run v: the same object, now holding run v's parameters
Fit(c, v) == [c EXCEPT !.ver = v, !.fitted = TRUE]

NoCentroids == [l \in Labels |-> 0]

\* dict truthiness / len of _cluster_centroids
CentroidLabels(cc) == {l \in Labels : cc[l] # 0}

\* Keys of an artifact dict
RequiredKeys == {"isolation_forest", "dbscan", "gmm", "scaler"}

SavedKeys == RequiredKeys \cup
    {"ensemble_weights", "contamination", "is_trained", "model_version",
     "trained_at", "n_training_samples", "_X_scaled_training", "_cluster_centroids"}

NoFile == [kind |-> "none"]
Corrupt == [kind |-> "corrupt"]

\* joblib.dump of a dict: the keys present and the values under them
DictFile(keys, e) ==
    [kind |-> "dict", keys |-> keys,
     isolation_forest |-> e.isolation_forest, dbscan |-> e.dbscan,
     gmm |-> e.gmm, scaler |-> e.scaler,
     ensemble_weights |-> e.ensemble_weights, is_trained |-> e.is_trained,
     X_scaled_training |-> e.X_scaled_training,
     cluster_centroids |-> e.cluster_centroids]

-----------------------------------------------------------------------------
\* What the fitted sklearn estimators answer (the library is outside src/;
\* the tables stand for one fixed answer per fitted parameter set and input)

\* 1 / (1 + exp(z)) in thousandths, in double precision: exp(-40) is below
\* the machine epsilon, so the quotient is exactly 1.0
Sigmoid(z) ==
    CASE z <= -40 -> 1000
      [] z = -5 -> 993
      [] z = -1 -> 731
      [] z = 0 -> 500
      [] z = 1 -> 269
      [] z = 5 -> 7
      [] z >= 40 -> 0

IfZ == <<-1, 0, 1, 5>>
GmmZ == <<-5, -1, 0, 1, 40>>
DistSamples == <<0, 10, 30, 60>>

\* isolation_forest.decision_function(X)[0] * 10 (unscaled X)
IfExp(ifv, x) == IF x = ExtremeVec THEN -5 ELSE IfZ[((ifv + x) % 4) + 1]

\* (gmm.score_samples(X_scaled)[0] + 10) * 0.5
GmmExp(gv, sv, x) == IF x = ExtremeVec THEN -40 ELSE GmmZ[((gv + 2 * sv + x) % 5) + 1]

\* np.linalg.norm(X_scaled[0] - centroid), tenths
Dist(sv, cv, l, x) == IF x = ExtremeVec THEN 1000 ELSE DistSamples[((sv + cv + l + x) % 4) + 1]

-----------------------------------------------------------------------------
\* Nearest-centroid classification (shared shape of both _predict_dbscan)

MinDist(cc, sv, x) ==
    CHOOSE d \in {Dist(sv, cc[l], l, x) : l \in CentroidLabels(cc)} :
        \A l \in CentroidLabels(cc) : d <= Dist(sv, cc[l], l, x)

\* strict "<" in the loop keeps the first label reaching the minimum
NearestCluster(cc, sv, x) ==
    CHOOSE l \in CentroidLabels(cc) :
        /\ Dist(sv, cc[l], l, x) = MinDist(cc, sv, x)
        /\ \A m \in CentroidLabels(cc) : Dist(sv, cc[m], m, x) = MinDist(cc, sv, x) => l <= m

\* _predict_dbscan with "min_distance <= self.dbscan.eps" as the test
ldr_predict_dbscan_eps(cc, db, sv, x) ==
    IF CentroidLabels(cc) = {} THEN -1
    ELSE IF ~db.isNone /\ MinDist(cc, sv, x) <= db.eps THEN NearestCluster(cc, sv, x)
    ELSE -1

\* AnomalyEnsemble._predict_dbscan
ens_predict_dbscan(cc, db, sv, x) ==
    IF CentroidLabels(cc) = {} THEN -1
    ELSE IF MinDist(cc, sv, x) <= db.eps * 2 THEN NearestCluster(cc, sv, x)
    ELSE -1

\* ModelLoader._predict_dbscan
ldr_predict_dbscan(cc, db, sv, x) ==
    IF CentroidLabels(cc) = {} THEN -1
    ELSE IF ~db.isNone /\ MinDist(cc, sv, x) <= db.eps * 2 THEN NearestCluster(cc, sv, x)
    ELSE -1

Min(a, b) == IF a <= b THEN a ELSE b
Max(a, b) == IF a >= b THEN a ELSE b

\* ModelLoader.predict, DBSCAN score: 0.9 for an outlier, else min(distance / 5.0, 1.0)
ldr_dbscan_score(pred, cc, sv, x) ==
    IF pred = -1 THEN 900
    ELSE IF cc[pred] # 0 THEN Min((Dist(sv, cc[pred], pred, x) * One) \div 50, One)
    ELSE 500

\* AnomalyEnsemble.predict, DBSCAN score: 0.9 for an outlier, else min(distance / 10.0, 1.0)
ens_dbscan_score(pred, cc, xtrain, sv, x) ==
    IF pred = -1 THEN 900
    ELSE IF cc[pred] # 0 THEN Min((Dist(sv, cc[pred], pred, x) * One) \div 100, One)
    ELSE Min((Dist(sv, xtrain, pred, x) * One) \div 100, One)

\* weights[0] * if_score + weights[1] * dbscan_score + weights[2] * gmm_score
WeightedSum(w, ifs, dbs, gms) == w[1] * ifs + w[2] * dbs + w[3] * gms

\* ModelLoader.predict: the weighted sum is returned as it is
ldr_final_score(w, ifs, dbs, gms) == WeightedSum(w, ifs, dbs, gms)

\* AnomalyEnsemble.predict: max(0.0, min(1.0, final_score))
ens_final_score(w, ifs, dbs, gms) == Max(0, Min(FOne, WeightedSum(w, ifs, dbs, gms)))

\* round(final_score, 3), thousandths (half to even)
Round3(f) ==
    LET q == f \div WOne
        r == f % WOne
    IN  IF 2 * r > WOne \/ (2 * r = WOne /\ q % 2 = 1) THEN q + 1 ELSE q

\* 9 * np.std([a, b, c]) ** 2 = 3 * (a^2 + b^2 + c^2) - (a + b + c)^2, the
\* population variance (ddof = 0) without a division
Var9(a, b, c) == 3 * (a * a + b * b + c * c) - (a + b + c) * (a + b + c)

\* AnomalyEnsemble.predict, confidence: score_std < 0.1 high, < 0.2 medium,
\* else low
ens_confidence(ifs, dbs, gms) ==
    IF Var9(ifs, dbs, gms) < 9 * 100 * 100 THEN "high"
    ELSE IF Var9(ifs, dbs, gms) < 9 * 200 * 200 THEN "medium"
    ELSE "low"

\* class RiskLevel
RiskLevel == {"critical", "high", "medium", "low", "normal"}

\* The thresholds of a Settings() without ALERT_THRESHOLD_* in the environment
DefaultThresholds ==
    [low |-> alert_threshold_low, medium |-> alert_threshold_medium,
     high |-> alert_threshold_high]

\* The cascade with its tests in the opposite order
risk_decision_low_first(th, final_score) ==
    IF final_score >= th.low * WOne
    THEN [risk_level |-> "low", is_anomaly |-> TRUE, confidence |-> "low",
          recommended_action |-> "MONITOR"]
    ELSE IF final_score >= th.medium * WOne
    THEN [risk_level |-> "medium", is_anomaly |-> TRUE, confidence |-> "medium",
          recommended_action |-> "REQUIRE_MFA"]
    ELSE IF final_score >= th.high * WOne
    THEN [risk_level |-> "high", is_anomaly |-> TRUE, confidence |-> "high",
          recommended_action |-> "BLOCK_IP"]
    ELSE [risk_level |-> "normal", is_anomaly |-> FALSE, confidence |-> "high",
          recommended_action |-> "NO_ACTION"]

\* analyze_log, "Determine risk level", under the thresholds th: final_score
\* is prediction["risk_score"] as a weighted sum
risk_decision_at(th, final_score) ==
    IF final_score >= th.high * WOne
    THEN [risk_level |-> "high", is_anomaly |-> TRUE, confidence |-> "high",
          recommended_action |-> "BLOCK_IP"]
    ELSE IF final_score >= th.medium * WOne
    THEN [risk_level |-> "medium", is_anomaly |-> TRUE, confidence |-> "medium",
          recommended_action |-> "REQUIRE_MFA"]
    ELSE IF final_score >= th.low * WOne
    THEN [risk_level |-> "low", is_anomaly |-> TRUE, confidence |-> "low",
          recommended_action |-> "MONITOR"]
    ELSE [risk_level |-> "normal", is_anomaly |-> FALSE, confidence |-> "high",
          recommended_action |-> "NO_ACTION"]

\* The same under the default thresholds
risk_decision(final_score) == risk_decision_at(DefaultThresholds, final_score)

-----------------------------------------------------------------------------
\* AnomalyEnsemble (backend/ml/ensemble.py)

\* np.isclose(s, 1.0): abs(s - 1.0) <= atol + rtol * 1.0, atol = 1e-8, rtol = 1e-5
np_isclose_one(s) == Abs(s - WOne) * 10000 <= 1001

NoEns ==
    [alive |-> FALSE, is_trained |-> FALSE,
     isolation_forest |-> NoneComp, dbscan |-> NoneComp, gmm |-> NoneComp,
     scaler |-> NoneComp, ensemble_weights |-> <<0, 0, 0>>,
     X_scaled_training |-> 0, cluster_centroids |-> NoCentroids]

\* AnomalyEnsemble.__init__ past the weight validation
NewEnsemble(w, e) ==
    [alive |-> TRUE, is_trained |-> FALSE,
     isolation_forest |-> FreshComp, dbscan |-> FreshDbscan(e), gmm |-> FreshComp,
     scaler |-> FreshComp, ensemble_weights |-> w,
     X_scaled_training |-> 0, cluster_centroids |-> NoCentroids]

\* Outcome of an operation on an ensemble: status is "ok" or the exception raised
Out(op, status) ==
    [op |-> op, status |-> status, risk_score |-> 0, isolation_forest_score |-> 0,
     dbscan_score |-> 0, gmm_score |-> 0, is_anomaly |-> FALSE,
     scalerInvoked |-> FALSE, x |-> 0]

NoOut == Out("none", "none")

\* AnomalyEnsemble.__init__ as a training script calls it
EnsInit(w) ==
    /\ IF np_isclose_one(Sum3(w))
       THEN /\ ens' = NewEnsemble(w, dbscan_eps)
            /\ ensOut' = Out("init", "ok")
       ELSE /\ ens' = ens
            /\ ensOut' = Out("init", "ValueError")
    /\ UNCHANGED <<settings_weights, files, saveClock, nextVer, global_ensemble,
                   getOut, ldr, loadPc, loadLoc, loadOut, predPc, predLoc, predOut, loadCount, origin, aggVars, ctorVars, apiVars>>

\* _compute_cluster_centroids: one entry written per non-noise label of this
\* clustering; the dict is not emptied first
compute_cluster_centroids(cc, labels, v) ==
    [l \in Labels |-> IF l \in labels THEN v ELSE cc[l]]

\* The body of AnomalyEnsemble.train for training run v on instance e; labels
\* are the clusters DBSCAN finds in X
ens_train(e, labels, v) ==
    [e EXCEPT
       !.scaler = Fit(@, v),
       !.isolation_forest = Fit(@, v),
       !.dbscan = Fit(@, v),
       !.X_scaled_training = v,
       !.cluster_centroids = compute_cluster_centroids(@, labels, v),
       !.gmm = Fit(@, v),
       !.is_trained = TRUE]

\* AnomalyEnsemble.train on the script's instance
Train(labels) ==
    /\ ens.alive
    /\ nextVer <= MaxVer
    /\ ens' = ens_train(ens, labels, nextVer)
    /\ nextVer' = nextVer + 1
    /\ UNCHANGED <<settings_weights, files, saveClock, ensOut, global_ensemble,
                   getOut, ldr, loadPc, loadLoc, loadOut, predPc, predLoc, predOut, loadCount, origin, aggVars, ctorVars, apiVars>>

\* The body of AnomalyEnsemble.predict on instance e
ens_predict(e, x) ==
    IF ~e.is_trained THEN Out("predict", "RuntimeError")
    ELSE IF ~e.scaler.fitted
         THEN [Out("predict", "NotFittedError") EXCEPT !.scalerInvoked = TRUE]
    ELSE IF ~e.isolation_forest.fitted \/ ~e.gmm.fitted
         THEN [Out("predict", "NotFittedError") EXCEPT !.scalerInvoked = TRUE]
    ELSE
      LET sv == e.scaler.ver
          ifs == Sigmoid(IfExp(e.isolation_forest.ver, x))
          pred == ens_predict_dbscan(e.cluster_centroids, e.dbscan, sv, x)
          dbs == ens_dbscan_score(pred, e.cluster_centroids, e.X_scaled_training, sv, x)
          gms == Sigmoid(GmmExp(e.gmm.ver, sv, x))
          final == ens_final_score(e.ensemble_weights, ifs, dbs, gms)
      IN  [op |-> "predict", status |-> "ok",
           risk_score |-> Round3(final),
           isolation_forest_score |-> ifs, dbscan_score |-> dbs, gmm_score |-> gms,
           is_anomaly |-> (final >= alert_threshold_medium * WOne),
           scalerInvoked |-> TRUE, x |-> x]

\* AnomalyEnsemble.predict on the script's instance
EnsPredict(x) ==
    /\ ens.alive
    /\ ensOut' = ens_predict(ens, x)
    /\ UNCHANGED <<settings_weights, files, saveClock, nextVer, ens, global_ensemble,
                   getOut, ldr, loadPc, loadLoc, loadOut, predPc, predLoc, predOut, loadCount, origin, aggVars, ctorVars, apiVars>>

\* AnomalyEnsemble.save: ensemble_<now, to the second>.joblib, whatever is_trained says
Save ==
    /\ ens.alive
    /\ files' = [files EXCEPT ![saveClock] = DictFile(SavedKeys, ens)]
    /\ UNCHANGED <<settings_weights, saveClock, nextVer, ens, ensOut, global_ensemble,
                   getOut, ldr, loadPc, loadLoc, loadOut, predPc, predLoc, predOut, loadCount, origin, aggVars, ctorVars, apiVars>>

\* The wall clock reaches the next second
TickSave ==
    /\ saveClock < MaxFiles
    /\ saveClock' = saveClock + 1
    /\ UNCHANGED <<settings_weights, files, nextVer, ens, ensOut, global_ensemble,
                   getOut, ldr, loadPc, loadLoc, loadOut, predPc, predLoc, predOut, loadCount, origin, aggVars, ctorVars, apiVars>>

\* AnomalyEnsemble.load(path) as a function of the file: the exception it
\* raises, or "ok" and the instance it returns
ens_load_status(f) ==
    IF f.kind # "dict" THEN "LoadError"
    ELSE IF ~({"contamination", "ensemble_weights"} \subseteq f.keys) THEN "KeyError"
    ELSE IF ~np_isclose_one(Sum3(f.ensemble_weights)) THEN "ValueError"
    ELSE IF ~((RequiredKeys \cup {"is_trained", "model_version", "trained_at",
                                  "n_training_samples"}) \subseteq f.keys) THEN "KeyError"
    ELSE "ok"

ens_load_value(f) ==
    [alive |-> TRUE, is_trained |-> f.is_trained,
     isolation_forest |-> f.isolation_forest, dbscan |-> f.dbscan, gmm |-> f.gmm,
     scaler |-> f.scaler, ensemble_weights |-> f.ensemble_weights,
     X_scaled_training |-> IF "_X_scaled_training" \in f.keys THEN f.X_scaled_training ELSE 0,
     cluster_centroids |-> IF "_cluster_centroids" \in f.keys THEN f.cluster_centroids
                           ELSE NoCentroids]

\* ens = AnomalyEnsemble.load(path) in a script
EnsLoad(p) ==
    /\ IF ens_load_status(files[p]) = "ok"
       THEN /\ ens' = ens_load_value(files[p])
            /\ ensOut' = Out("load", "ok")
       ELSE /\ ens' = ens
            /\ ensOut' = Out("load", ens_load_status(files[p]))
    /\ UNCHANGED <<settings_weights, files, saveClock, nextVer, global_ensemble,
                   getOut, ldr, loadPc, loadLoc, loadOut, predPc, predLoc, predOut, loadCount, origin, aggVars, ctorVars, apiVars>>

\* Outcome of get_ensemble(): the exception it raised or "ok", the artifact it
\* picked as latest (0: none) and what loading that artifact ended with
GetOut(status, latest, loadStatus) ==
    [status |-> status, latest |-> latest, loadStatus |-> loadStatus]

\* sorted(model_path.glob("ensemble_*.joblib"))[-1]
LatestPath == CHOOSE p \in Paths : files[p].kind # "none" /\
                  \A q \in Paths : files[q].kind # "none" => q <= p

\* get_ensemble()
GetEnsemble ==
    /\ IF global_ensemble.alive
       THEN /\ global_ensemble' = global_ensemble
            /\ getOut' = GetOut("ok", 0, "none")
       ELSE IF ~np_isclose_one(Sum3(settings_weights))
       THEN /\ global_ensemble' = global_ensemble
            /\ getOut' = GetOut("ValueError", 0, "none")
       ELSE IF \A p \in Paths : files[p].kind = "none"
       THEN /\ global_ensemble' = NewEnsemble(settings_weights, dbscan_eps)
            /\ getOut' = GetOut("ok", 0, "none")
       ELSE IF ens_load_status(files[LatestPath]) = "ok"
       THEN /\ global_ensemble' = ens_load_value(files[LatestPath])
            /\ getOut' = GetOut("ok", LatestPath, "ok")
       ELSE \* except Exception: logger.exception(...), nothing raised
            /\ global_ensemble' = NewEnsemble(settings_weights, dbscan_eps)
            /\ getOut' = GetOut("ok", LatestPath, ens_load_status(files[LatestPath]))
    /\ UNCHANGED <<settings_weights, files, saveClock, nextVer, ens, ensOut,
                   ldr, loadPc, loadLoc, loadOut, predPc, predLoc, predOut, loadCount, origin, aggVars, ctorVars, apiVars>>

\* get_ensemble().predict(features)
GlobalPredict(x) ==
    /\ global_ensemble.alive
    /\ ensOut' = ens_predict(global_ensemble, x)
    /\ UNCHANGED <<settings_weights, files, saveClock, nextVer, ens, global_ensemble,
                   getOut, ldr, loadPc, loadLoc, loadOut, predPc, predLoc, predOut,
                   loadCount, origin, aggVars, ctorVars, apiVars>>

-----------------------------------------------------------------------------
\* ModelLoader (backend/ml/model_loader.py)

\* ModelLoader.__init__
NewLoader ==
    [model_path |-> 0, isolation_forest |-> NoneComp, dbscan |-> NoneComp,
     gmm |-> NoneComp, scaler |-> NoneComp, metadata |-> 0,
     X_scaled_training |-> 0, cluster_centroids |-> NoCentroids]

\* ModelLoader.is_loaded
is_loaded(l) ==
    /\ ~l.isolation_forest.isNone
    /\ ~l.dbscan.isNone
    /\ ~l.gmm.isNone
    /\ ~l.scaler.isNone

\* No estimator of the loader has been fitted: nothing loaded, or the
\* estimators of a never trained ensemble
ldr_untrained(l) ==
    /\ ~l.isolation_forest.fitted
    /\ ~l.dbscan.fitted
    /\ ~l.gmm.fitted
    /\ ~l.scaler.fitted

NoLoadLoc == [path |-> 0, ensemble |-> NoFile, before |-> NewLoader]

\* load_model, lines 72-75: the existence test
LoadStart(p) ==
    /\ loadPc = "idle"
    /\ loadCount < MaxLoads
    /\ loadCount' = loadCount + 1
    /\ IF files[p].kind = "none"
       THEN /\ loadOut' = "FileNotFoundError"
            /\ loadPc' = "idle"
            /\ loadLoc' = [path |-> p, ensemble |-> NoFile, before |-> ldr]
       ELSE /\ loadPc' = "joblib_load"
            /\ loadLoc' = [path |-> p, ensemble |-> NoFile, before |-> ldr]
            /\ loadOut' = "running"
    /\ UNCHANGED <<settings_weights, files, saveClock, nextVer, ens, ensOut,
                   global_ensemble, getOut, ldr, predPc, predLoc, predOut, origin, aggVars, ctorVars, apiVars>>

\* load_model, line 81: ensemble = joblib.load(model_path)
LoadRead ==
    /\ loadPc = "joblib_load"
    /\ IF files[loadLoc.path].kind = "dict"
       THEN /\ loadLoc' = [loadLoc EXCEPT !.ensemble = files[loadLoc.path]]
            /\ loadPc' = "isolation_forest"
            /\ UNCHANGED loadOut
       ELSE /\ loadOut' = "ValueError"
            /\ loadPc' = "idle"
            /\ loadLoc' = [loadLoc EXCEPT !.ensemble = NoFile]
    /\ UNCHANGED <<settings_weights, files, saveClock, nextVer, ens, ensOut,
                   global_ensemble, getOut, ldr, predPc, predLoc, predOut, loadCount, origin, aggVars, ctorVars, apiVars>>

\* The order of the assignments of lines 84-93
LoadNextPc(pc) ==
    CASE pc = "isolation_forest" -> "dbscan"
      [] pc = "dbscan" -> "gmm"
      [] pc = "gmm" -> "scaler"
      [] pc = "scaler" -> "metadata"
      [] pc = "metadata" -> "model_path"
      [] pc = "model_path" -> "_X_scaled_training"
      [] pc = "_X_scaled_training" -> "_cluster_centroids"
      [] pc = "_cluster_centroids" -> "idle"

\* One assignment self.<field> = ... of load_model applied to loader l
LoadAssignField(l, pc, path, e) ==
    CASE pc = "isolation_forest" -> [l EXCEPT !.isolation_forest = e.isolation_forest]
      [] pc = "dbscan" -> [l EXCEPT !.dbscan = e.dbscan]
      [] pc = "gmm" -> [l EXCEPT !.gmm = e.gmm]
      [] pc = "scaler" -> [l EXCEPT !.scaler = e.scaler]
      [] pc = "metadata" -> [l EXCEPT !.metadata = 0]
      [] pc = "model_path" -> [l EXCEPT !.model_path = path]
      [] pc = "_X_scaled_training" ->
            [l EXCEPT !.X_scaled_training =
                IF "_X_scaled_training" \in e.keys THEN e.X_scaled_training ELSE 0]
      [] pc = "_cluster_centroids" ->
            [l EXCEPT !.cluster_centroids =
                IF "_cluster_centroids" \in e.keys THEN e.cluster_centroids
                ELSE NoCentroids]

\* load_model, lines 84-93, one statement at a time; a missing required key
\* raises KeyError, re-raised as ValueError by the handler of line 105
LoadAssign ==
    /\ loadPc \in {"isolation_forest", "dbscan", "gmm", "scaler", "metadata",
                   "model_path", "_X_scaled_training", "_cluster_centroids"}
    /\ IF loadPc \in RequiredKeys /\ loadPc \notin loadLoc.ensemble.keys
       THEN /\ loadOut' = "ValueError"
            /\ loadPc' = "idle"
            /\ UNCHANGED <<ldr, origin>>
       ELSE /\ ldr' = LoadAssignField(ldr, loadPc, loadLoc.path, loadLoc.ensemble)
            /\ origin' = [origin EXCEPT ![loadPc] = loadCount]
            /\ loadPc' = LoadNextPc(loadPc)
            /\ loadOut' = IF loadPc = "_cluster_centroids" THEN "ok" ELSE loadOut
    /\ UNCHANGED <<settings_weights, files, saveClock, nextVer, ens, ensOut,
                   global_ensemble, getOut, loadLoc, predPc, predLoc, predOut, loadCount, aggVars, ctorVars, apiVars>>

LoaderFields == {"isolation_forest", "dbscan", "gmm", "scaler", "metadata",
                 "model_path", "_X_scaled_training", "_cluster_centroids"}

\* The fields a predict() reads to compute its scores
ScoringFields == {"isolation_forest", "dbscan", "gmm", "scaler", "_cluster_centroids"}

\* Outcome of ModelLoader.predict: status is "ok" or the exception raised;
\* risk_score is the unrounded weighted sum; origins are the load_model calls
\* whose assignments the call read and vers the training runs of the
\* estimators it used, cleanStart says that all scoring fields
\* came from one load_model call when the call began, untrainedAtStart that
\* the loader then held no fitted estimator
PredOutOf(status, loc) ==
    [status |-> status, risk_score |-> 0, isolation_forest_score |-> loc.ifs,
     dbscan_score |-> 0, gmm_score |-> loc.gms, is_anomaly |-> FALSE,
     scalerInvoked |-> loc.scalerInvoked, x |-> loc.x, w |-> loc.w,
     origins |-> loc.origins, vers |-> loc.vers, cleanStart |-> loc.cleanStart,
     untrainedAtStart |-> loc.untrainedAtStart]

NoPredLoc ==
    [x |-> 0, w |-> <<0, 0, 0>>, sv |-> 0, ifs |-> 0, gms |-> 0, pred |-> -1,
     scalerInvoked |-> FALSE, origins |-> {}, vers |-> {}, cleanStart |-> FALSE,
     untrainedAtStart |-> FALSE]

NoPredOut == PredOutOf("none", NoPredLoc)

\* predict, lines 144-151: the is_loaded() precondition and the default weights
PredStart(x, w) ==
    /\ predPc = "idle"
    /\ LET loc == [NoPredLoc EXCEPT !.x = x, !.w = w,
                      !.cleanStart = (\A f, g \in ScoringFields : origin[f] = origin[g]),
                      !.untrainedAtStart = ldr_untrained(ldr)]
       IN  IF ~is_loaded(ldr)
           THEN /\ predOut' = PredOutOf("RuntimeError", loc)
                /\ UNCHANGED <<predPc, predLoc>>
           ELSE /\ predPc' = "scaler"
                /\ predLoc' = loc
                /\ predOut' = NoPredOut
    /\ UNCHANGED <<settings_weights, files, saveClock, nextVer, ens, ensOut,
                   global_ensemble, getOut, ldr, loadPc, loadLoc, loadOut,
                   loadCount, origin, aggVars, ctorVars, apiVars>>

\* predict, line 155: X_scaled = self.scaler.transform(X)
PredScale ==
    /\ predPc = "scaler"
    /\ LET loc == [predLoc EXCEPT !.scalerInvoked = TRUE, !.sv = ldr.scaler.ver,
                      !.origins = @ \cup {origin["scaler"]},
                      !.vers = @ \cup {ldr.scaler.ver}]
       IN  IF ~ldr.scaler.fitted
           THEN /\ predOut' = PredOutOf("NotFittedError", loc)
                /\ predPc' = "idle"
                /\ predLoc' = NoPredLoc
           ELSE /\ predPc' = "isolation_forest"
                /\ predLoc' = loc
                /\ UNCHANGED predOut
    /\ UNCHANGED <<settings_weights, files, saveClock, nextVer, ens, ensOut,
                   global_ensemble, getOut, ldr, loadPc, loadLoc, loadOut,
                   loadCount, origin, aggVars, ctorVars, apiVars>>

\* predict, lines 162-165: Isolation Forest decision and its sigmoid
PredIsolationForest ==
    /\ predPc = "isolation_forest"
    /\ LET loc == [predLoc EXCEPT
                      !.ifs = IF ldr.isolation_forest.fitted
                              THEN Sigmoid(IfExp(ldr.isolation_forest.ver, predLoc.x))
                              ELSE 0,
                      !.origins = @ \cup {origin["isolation_forest"]},
                      !.vers = @ \cup {ldr.isolation_forest.ver}]
       IN  IF ~ldr.isolation_forest.fitted
           THEN /\ predOut' = PredOutOf("NotFittedError", loc)
                /\ predPc' = "idle"
                /\ predLoc' = NoPredLoc
           ELSE /\ predPc' = "gmm"
                /\ predLoc' = loc
                /\ UNCHANGED predOut
    /\ UNCHANGED <<settings_weights, files, saveClock, nextVer, ens, ensOut,
                   global_ensemble, getOut, ldr, loadPc, loadLoc, loadOut,
                   loadCount, origin, aggVars, ctorVars, apiVars>>

\* predict, lines 172-176: GMM log-likelihood and its sigmoid
PredGmm ==
    /\ predPc = "gmm"
    /\ LET loc == [predLoc EXCEPT
                      !.gms = IF ldr.gmm.fitted
                              THEN Sigmoid(GmmExp(ldr.gmm.ver, predLoc.sv, predLoc.x))
                              ELSE 0,
                      !.origins = @ \cup {origin["gmm"]},
                      !.vers = @ \cup {ldr.gmm.ver}]
       IN  IF ~ldr.gmm.fitted
           THEN /\ predOut' = PredOutOf("NotFittedError", loc)
                /\ predPc' = "idle"
                /\ predLoc' = NoPredLoc
           ELSE /\ predPc' = "dbscan"
                /\ predLoc' = loc
                /\ UNCHANGED predOut
    /\ UNCHANGED <<settings_weights, files, saveClock, nextVer, ens, ensOut,
                   global_ensemble, getOut, ldr, loadPc, loadLoc, loadOut,
                   loadCount, origin, aggVars, ctorVars, apiVars>>

\* predict, line 182: dbscan_prediction = self._predict_dbscan(X_scaled[0])
PredDbscan ==
    /\ predPc = "dbscan"
    /\ predLoc' = [predLoc EXCEPT
                      !.pred = ldr_predict_dbscan(ldr.cluster_centroids, ldr.dbscan,
                                                  predLoc.sv, predLoc.x),
                      !.origins = @ \cup {origin["_cluster_centroids"], origin["dbscan"]},
                      !.vers = @ \cup {ldr.dbscan.ver}]
    /\ predPc' = "aggregate"
    /\ UNCHANGED <<settings_weights, files, saveClock, nextVer, ens, ensOut,
                   global_ensemble, getOut, ldr, loadPc, loadLoc, loadOut,
                   predOut, loadCount, origin, aggVars, ctorVars, apiVars>>

\* predict, lines 184-258: the DBSCAN score from the centroid, the weighted
\* sum, the anomaly flag and the returned dict
PredAggregate ==
    /\ predPc = "aggregate"
    /\ LET dbs == ldr_dbscan_score(predLoc.pred, ldr.cluster_centroids,
                                   predLoc.sv, predLoc.x)
           final == ldr_final_score(predLoc.w, predLoc.ifs, dbs, predLoc.gms)
           loc == [predLoc EXCEPT !.origins = @ \cup {origin["_cluster_centroids"]}]
       IN  predOut' = [PredOutOf("ok", loc) EXCEPT
                          !.risk_score = final,
                          !.dbscan_score = dbs,
                          !.is_anomaly = (final >= alert_threshold_medium * WOne)]
    /\ predPc' = "idle"
    /\ predLoc' = NoPredLoc
    /\ UNCHANGED <<settings_weights, files, saveClock, nextVer, ens, ensOut,
                   global_ensemble, getOut, ldr, loadPc, loadLoc, loadOut,
                   loadCount, origin, aggVars, ctorVars, apiVars>>

-----------------------------------------------------------------------------
\* ModelLoader as a singleton (model_loader.py lines 33-59, 296-315), one
\* statement at a time

Threads == 1..MaxThreads

\* Each thread creates at most one object: it does so only after it has seen
\* _instance is None
Objs == 1..MaxThreads

\* An object not yet created
NoObj == [exists |-> FALSE, initialized |-> FALSE, loaded |-> FALSE]

\* A thread outside both functions, holding the instance it was handed last
IdleThread == [pc |-> "idle", fn |-> "none", self |-> 0, held |-> 0]

SingletonInit ==
    /\ cls_instance = 0
    /\ model_loader = 0
    /\ objs = [o \in Objs |-> NoObj]
    /\ thr = [t \in Threads |-> IdleThread]
    /\ handed = [instances |-> {}, lostLoad |-> FALSE, calls |-> 0]

\* A thread calls ModelLoader() or get_model_loader()
CtorStart(t, fn) ==
    /\ thr[t].pc = "idle"
    /\ handed.calls < MaxCtorCalls
    /\ handed' = [handed EXCEPT !.calls = @ + 1]
    /\ thr' = [thr EXCEPT ![t].fn = fn, ![t].self = 0,
                          ![t].pc = IF fn = "get_model_loader" THEN "g_test"
                                    ELSE "new_test"]
    /\ UNCHANGED <<cls_instance, model_loader, objs, modelVars, aggVars, apiVars>>

\* get_model_loader, line 313: if _model_loader is None
GTest(t) ==
    /\ thr[t].pc = "g_test"
    /\ thr' = [thr EXCEPT ![t].pc = IF model_loader = 0 THEN "new_test" ELSE "g_return"]
    /\ UNCHANGED <<cls_instance, model_loader, objs, handed, modelVars, aggVars, apiVars>>

\* __new__, line 38: if cls._instance is None
NewTest(t) ==
    /\ thr[t].pc = "new_test"
    /\ thr' = [thr EXCEPT ![t].pc = IF cls_instance = 0 THEN "new_assign" ELSE "new_return"]
    /\ UNCHANGED <<cls_instance, model_loader, objs, handed, modelVars, aggVars, apiVars>>

\* __new__, line 39: cls._instance = super().__new__(cls)
NewAssign(t) ==
    /\ thr[t].pc = "new_assign"
    /\ LET o == CHOOSE n \in Objs : ~objs[n].exists /\ \A m \in Objs : m < n => objs[m].exists
       IN  /\ objs' = [objs EXCEPT ![o] = [NoObj EXCEPT !.exists = TRUE]]
           /\ cls_instance' = o
    /\ thr' = [thr EXCEPT ![t].pc = "new_return"]
    /\ UNCHANGED <<model_loader, handed, modelVars, aggVars, apiVars>>

\* __new__, line 40: return cls._instance; type.__call__ then runs __init__ on it
NewReturn(t) ==
    /\ thr[t].pc = "new_return"
    /\ thr' = [thr EXCEPT ![t].self = cls_instance, ![t].pc = "init_test"]
    /\ UNCHANGED <<cls_instance, model_loader, objs, handed, modelVars, aggVars, apiVars>>

\* Where a thread goes when __init__ returns
AfterInit(t) == IF thr[t].fn = "get_model_loader" THEN "g_assign" ELSE "ctor_return"

\* __init__, line 44: if not self._initialized (the class attribute False
\* until the instance has its own)
InitTest(t) ==
    /\ thr[t].pc = "init_test"
    /\ thr' = [thr EXCEPT ![t].pc = IF ~objs[thr[t].self].initialized THEN "init_fields"
                                    ELSE AfterInit(t)]
    /\ UNCHANGED <<cls_instance, model_loader, objs, handed, modelVars, aggVars, apiVars>>

\* __init__, lines 45-55: the component fields are set to None
InitFields(t) ==
    /\ thr[t].pc = "init_fields"
    /\ objs' = [objs EXCEPT ![thr[t].self].loaded = FALSE]
    /\ handed' = [handed EXCEPT !.lostLoad = @ \/ objs[thr[t].self].loaded]
    /\ thr' = [thr EXCEPT ![t].pc = "init_flag"]
    /\ UNCHANGED <<cls_instance, model_loader, modelVars, aggVars, apiVars>>

\* __init__, line 57: self._initialized = True
InitFlag(t) ==
    /\ thr[t].pc = "init_flag"
    /\ objs' = [objs EXCEPT ![thr[t].self].initialized = TRUE]
    /\ thr' = [thr EXCEPT ![t].pc = AfterInit(t)]
    /\ UNCHANGED <<cls_instance, model_loader, handed, modelVars, aggVars, apiVars>>

\* ModelLoader() returns the object to its caller
CtorReturn(t) ==
    /\ thr[t].pc = "ctor_return"
    /\ handed' = [handed EXCEPT !.instances = @ \cup {thr[t].self}]
    /\ thr' = [thr EXCEPT ![t] = [IdleThread EXCEPT !.held = thr[t].self]]
    /\ UNCHANGED <<cls_instance, model_loader, objs, modelVars, aggVars, apiVars>>

\* get_model_loader, line 314: _model_loader = ModelLoader()
GAssign(t) ==
    /\ thr[t].pc = "g_assign"
    /\ model_loader' = thr[t].self
    /\ thr' = [thr EXCEPT ![t].pc = "g_return"]
    /\ UNCHANGED <<cls_instance, objs, handed, modelVars, aggVars, apiVars>>

\* get_model_loader, line 315: return _model_loader
GReturn(t) ==
    /\ thr[t].pc = "g_return"
    /\ handed' = [handed EXCEPT !.instances = @ \cup {model_loader}]
    /\ thr' = [thr EXCEPT ![t] = [IdleThread EXCEPT !.held = model_loader]]
    /\ UNCHANGED <<cls_instance, model_loader, objs, modelVars, aggVars, apiVars>>

\* The caller runs load_model on the instance it was handed, to its end
CallerLoads(t) ==
    /\ thr[t].pc = "idle"
    /\ thr[t].held # 0
    /\ ~objs[thr[t].held].loaded
    /\ objs' = [objs EXCEPT ![thr[t].held].loaded = TRUE]
    /\ UNCHANGED <<cls_instance, model_loader, thr, handed, modelVars, aggVars, apiVars>>

-----------------------------------------------------------------------------
\* FeatureEngineer.extract and the fields of its argument (ml/features.py)

\* The fields extract reads from its argument (features.py lines 199-206, 413)
EventFields == {"timestamp", "source_ip", "username", "endpoint", "user_agent",
                "status_code", "bytes_sent", "payload", "event_type"}

\* A key of the dict is missing, holds None (JSON null in request.metadata,
\* an unset Optional field), or holds a value of the field's type
Presence == {"absent", "none", "value"}

\* parsed_log.get(key, default): the default only for a missing key
dict_get(d, key) == IF d[key] = "absent" THEN "value" ELSE d[key]

\* The statements of extract that use a field, in the order they run, with
\* the exception each raises on None; source_ip, payload ("if not data") and
\* event_type (inside the try of _update_cache) are not among them
FieldUses ==
    <<[field |-> "timestamp", raises |-> "AttributeError"],     \* timestamp.hour
      [field |-> "status_code", raises |-> "TypeError"],        \* 400 <= status_code < 500
      [field |-> "bytes_sent", raises |-> "TypeError"],         \* np.log1p(bytes_sent)
      [field |-> "username", raises |-> "AttributeError"],      \* username.lower()
      [field |-> "endpoint", raises |-> "AttributeError"],      \* endpoint.startswith(path)
      [field |-> "user_agent", raises |-> "TypeError"]>>        \* ua in user_agent

\* The fields of LogFeatures
NumFeatures == 21

NoFeatures == [status |-> "none", n |-> 0]

\* FeatureEngineer.extract as far as its argument's fields decide it: the
\* first use of a None raises, else the LogFeatures is returned
extract_fields(d) ==
    LET bad == {i \in DOMAIN FieldUses : dict_get(d, FieldUses[i].field) = "none"}
    IN  IF bad = {} THEN [status |-> "ok", n |-> NumFeatures]
        ELSE [status |-> FieldUses[CHOOSE i \in bad : \A j \in bad : i <= j].raises,
              n |-> 0]

\* extract(parsed_log)
ExtractFields ==
    /\ featOut' = extract_fields(parsed_log)
    /\ UNCHANGED <<settings_thresholds, async_session_factory, db_rows, anaCount, anaOut,
                   parsed_log, modelVars, aggVars, ctorVars>>

\* parsed_data.update(request.metadata) with one key, or a caller's dict
\* without it
SetField(f, v) ==
    /\ parsed_log' = [parsed_log EXCEPT ![f] = v]
    /\ featOut' = NoFeatures
    /\ UNCHANGED <<settings_thresholds, async_session_factory, db_rows, anaCount, anaOut,
                   modelVars, aggVars, ctorVars>>

-----------------------------------------------------------------------------
\* The analysis endpoint (api/routes/analysis.py) and the database session
\* (db/database.py)

\* Values an environment gives ALERT_THRESHOLD_LOW / _MEDIUM / _HIGH; Settings
\* checks each against [0, 1] and not their order
ThresholdSamples == {400, 600, 800}

\* prediction["risk_score"] as a weighted sum: ModelLoader.predict returns it
\* unclamped
ScoreSamples == {0, 3000000, 4000000, 5000000, 6000000, 8000000, 10000000, 12000000}

\* The three sub-scores of a prediction
SubScoreSamples == {<<500, 900, 269>>, <<993, 1000, 1000>>}

\* What model_loader.predict returned for the request's features under the
\* thresholds th
PredictionOf(th, score, sub) ==
    [risk_score |-> score, isolation_forest_score |-> sub[1], dbscan_score |-> sub[2],
     gmm_score |-> sub[3], is_anomaly |-> (score >= th.medium * WOne)]

\* Where the persistence step fails: the session cannot be opened, an insert
\* raises, the commit raises; "RuntimeError" is get_db without init_db
DbFaults == {"ok", "session", "insert_anomaly", "insert_log", "commit"}

\* A handler that lets the failures of an insert through
SaveHandlerMissesInsert(fault) == fault \notin {"insert_anomaly", "insert_log"}

\* except Exception (analysis.py line 454): every failure of the database layer
\* is an Exception
SaveHandlerCatches(fault) == TRUE

\* How the "Save to database" block ends for a decision d
SaveOutcome(factory, fault, d) ==
    IF factory = "none" THEN "RuntimeError"
    ELSE IF fault = "insert_anomaly" /\ ~d.is_anomaly THEN "ok"
    ELSE fault

\* The rows a commit leaves: get_db commits after the block, rolls back on
\* any exception
Committed(rows, outcome, d) ==
    IF outcome = "ok"
    THEN [anomalies |-> rows.anomalies + (IF d.is_anomaly THEN 1 ELSE 0),
          logs |-> rows.logs + 1]
    ELSE rows

\* AnalysisResult(...): risk_score has ge=0.0, le=1.0; a violation raises
\* pydantic's ValidationError, a ValueError, answered with 422
AnalysisResultOf(pred, d, saved) ==
    IF Round3(pred.risk_score) > One \/ Round3(pred.risk_score) < 0
    THEN [status |-> 422, risk_score |-> 0, risk_level |-> "none", is_anomaly |-> FALSE,
          confidence |-> "none", recommended_action |-> "none",
          model_scores |-> <<0, 0, 0>>, saved |-> saved, predicted |-> pred]
    ELSE [status |-> 200, risk_score |-> Round3(pred.risk_score),
          risk_level |-> d.risk_level, is_anomaly |-> d.is_anomaly,
          confidence |-> d.confidence, recommended_action |-> d.recommended_action,
          model_scores |-> <<pred.isolation_forest_score, pred.dbscan_score,
                             pred.gmm_score>>,
          saved |-> saved, predicted |-> pred]

\* except Exception (line 480): HTTP 500
AnalysisFailed(pred, saved) ==
    [status |-> 500, risk_score |-> 0, risk_level |-> "none", is_anomaly |-> FALSE,
     confidence |-> "none", recommended_action |-> "none",
     model_scores |-> <<0, 0, 0>>, saved |-> saved, predicted |-> pred]

NoAnalysis ==
    [status |-> 0, risk_score |-> 0, risk_level |-> "none", is_anomaly |-> FALSE,
     confidence |-> "none", recommended_action |-> "none",
     model_scores |-> <<0, 0, 0>>, saved |-> "none",
     predicted |-> PredictionOf(DefaultThresholds, 0, <<0, 0, 0>>)]

ApiIdleInit ==
    /\ settings_thresholds = DefaultThresholds
    /\ async_session_factory = "none"
    /\ db_rows = [anomalies |-> 0, logs |-> 0]
    /\ anaCount = 0
    /\ anaOut = NoAnalysis
    /\ parsed_log = [f \in EventFields |-> "value"]
    /\ featOut = NoFeatures

\* init_db (database.py lines 29-72)
InitDb ==
    /\ async_session_factory = "none"
    /\ async_session_factory' = "set"
    /\ UNCHANGED <<settings_thresholds, db_rows, anaCount, anaOut, parsed_log, featOut,
                   modelVars, aggVars, ctorVars>>

\* analyze_log from the prediction on: the risk decision, the save block, the
\* response
Analyze(score, sub, fault) ==
    /\ anaCount < MaxAnalyses
    /\ anaCount' = anaCount + 1
    /\ LET pred == PredictionOf(settings_thresholds, score, sub)
           d == risk_decision_at(settings_thresholds, score)
           outcome == SaveOutcome(async_session_factory, fault, d)
       IN  /\ db_rows' = Committed(db_rows, outcome, d)
           /\ anaOut' = IF outcome = "ok" \/ SaveHandlerCatches(outcome)
                         THEN AnalysisResultOf(pred, d, outcome)
                         ELSE AnalysisFailed(pred, outcome)
    /\ UNCHANGED <<settings_thresholds, async_session_factory, parsed_log, featOut,
                   modelVars, aggVars, ctorVars>>

-----------------------------------------------------------------------------
\* Streaming aggregator: the Redis commands cache.py issues

IPs == {"10.0.0.1", "10.0.0.2"}
Endpoints == {"/", "/admin"}

ZKinds == {"login_attempts", "login_attempts:failed", "requests"}

\* The strings that reach the cache functions as source_ip: what the parsers
\* extract, and what the request metadata puts over it
\* (parsed_data.update(request.metadata)), which is any string
SourceIds == IPs \cup {"failed:10.0.0.1"}

\* f"{prefix}:{source_ip}": a key is the string the formatting yields, named
\* here by the pair <<prefix, rest>>.  Over ZKinds, "endpoints" and SourceIds
\* two formatted strings are equal in one case only:
\* "login_attempts:" + "failed:10.0.0.1" = "login_attempts:failed:" + "10.0.0.1"
Key(prefix, source_ip) ==
    IF prefix = "login_attempts" /\ source_ip = "failed:10.0.0.1"
    THEN <<"login_attempts:failed", "10.0.0.1">>
    ELSE <<prefix, source_ip>>

\* f"login_attempts:{source_ip}", f"login_attempts:failed:{source_ip}",
\* f"requests:{source_ip}"
ZKeys == {Key(kind, ip) : kind \in ZKinds, ip \in SourceIds}

\* f"endpoints:{source_ip}" and "unique_ips"
SKeys == {Key("endpoints", ip) : ip \in SourceIds} \cup {<<"unique_ips", "">>}

\* An empty data set; ttl -1: the key has no expiry
EmptyRedis ==
    [z |-> [k \in ZKeys |-> {}],
     s |-> [k \in SKeys |-> {}],
     ttl |-> [k \in ZKeys \cup SKeys |-> -1]]

\* ZADD key {ts: ts}: member and score are both the timestamp
zadd(r, k, ts) == [r EXCEPT !.z[k] = @ \cup {ts}]

\* SADD key member
sadd(r, k, m) == [r EXCEPT !.s[k] = @ \cup {m}]

KeyExists(r, k) == IF k \in ZKeys THEN r.z[k] # {} ELSE r.s[k] # {}

\* EXPIRE key seconds, issued at time t
expire(r, k, seconds, t) ==
    IF KeyExists(r, k) THEN [r EXCEPT !.ttl[k] = t + seconds] ELSE r

\* ZCOUNT key min max: both ends inclusive
zcount(r, k, lo, hi) == Cardinality({ts \in r.z[k] : lo <= ts /\ ts <= hi})

\* SCARD key
scard(r, k) == Cardinality(r.s[k])

\* The server drops every key whose expiry time has come
ExpireKeys(r, t) ==
    LET dead(k) == r.ttl[k] >= 0 /\ r.ttl[k] <= t
    IN  [z |-> [k \in ZKeys |-> IF dead(k) THEN {} ELSE r.z[k]],
         s |-> [k \in SKeys |-> IF dead(k) THEN {} ELSE r.s[k]],
         ttl |-> [k \in ZKeys \cup SKeys |-> IF dead(k) THEN -1 ELSE r.ttl[k]]]

\* Why a command issued now would not be answered: get_redis() raises
\* RuntimeError without a client, the client raises a RedisError
\* (ConnectionError) when the server is unreachable
StoreFault == IF redis_client = "none" THEN "RuntimeError"
              ELSE IF ~serverUp THEN "RedisError"
              ELSE "ok"

-----------------------------------------------------------------------------
\* Window queries (db/cache.py)

\* The operands of the subtraction exchanged
WindowStartSwapped(as_of, window_seconds) == window_seconds - as_of

\* window_start = timestamp_seconds - window_seconds
WindowStart(as_of, window_seconds) == as_of - window_seconds

\* A returned float as the fraction num / den
Frac(n, d) == [status |-> "ok", num |-> n, den |-> d]
Raised(e) == [status |-> e, num |-> 0, den |-> 1]

\* get_login_attempts_rate: count / (window_seconds / 60)
get_login_attempts_rate(fault, r, source_ip, window_seconds, as_of) ==
    IF fault = "RuntimeError" THEN Raised("RuntimeError")
    ELSE IF fault = "RedisError" THEN Frac(0, 1)
    ELSE IF window_seconds = 0 THEN Raised("ZeroDivisionError")
    ELSE Frac(zcount(r, Key("login_attempts", source_ip),
                     WindowStart(as_of, window_seconds), as_of) * 60,
              window_seconds)

\* get_requests_per_second: count / window_seconds
get_requests_per_second(fault, r, source_ip, window_seconds, as_of) ==
    IF fault = "RuntimeError" THEN Raised("RuntimeError")
    ELSE IF fault = "RedisError" THEN Frac(0, 1)
    ELSE IF window_seconds = 0 THEN Raised("ZeroDivisionError")
    ELSE Frac(zcount(r, Key("requests", source_ip),
                     WindowStart(as_of, window_seconds), as_of),
              window_seconds)

\* get_unique_endpoints_accessed
get_unique_endpoints_accessed(fault, r, source_ip) ==
    IF fault = "RuntimeError" THEN Raised("RuntimeError")
    ELSE IF fault = "RedisError" THEN Frac(0, 1)
    ELSE Frac(scard(r, Key("endpoints", source_ip)), 1)

\* get_unique_ips_last_hour
get_unique_ips_last_hour(fault, r) ==
    IF fault = "RuntimeError" THEN Raised("RuntimeError")
    ELSE IF fault = "RedisError" THEN Frac(0, 1)
    ELSE Frac(scard(r, <<"unique_ips", "">>), 1)

\* ZREVRANGE key 0 0 WITHSCORES: the highest score, -1 for an empty reply
zrevrange_top(r, k) ==
    IF r.z[k] = {} THEN -1
    ELSE CHOOSE ts \in r.z[k] : \A u \in r.z[k] : u <= ts

\* get_time_since_last_activity
get_time_since_last_activity(fault, r, source_ip, as_of) ==
    IF fault = "RuntimeError" THEN Raised("RuntimeError")
    ELSE IF fault = "RedisError" THEN Frac(0, 1)
    ELSE IF zrevrange_top(r, Key("requests", source_ip)) = -1 THEN Frac(0, 1)
    ELSE Frac(as_of - zrevrange_top(r, Key("requests", source_ip)), 1)

-----------------------------------------------------------------------------
\* Recording (db/cache.py) as coroutines: one step per awaited Redis command

Calls == 1..MaxCalls

\* Event timestamps tried, as int(timestamp.timestamp())
TsSamples == {0, 60}

\* Reference times tried by direct queries
AsOfSamples == {60}

\* window_seconds values tried by direct queries
WindowSamples == {0, 60, 120}

NoArg == [fn |-> "none", source_ip |-> "10.0.0.1", ts |-> 0, success |-> FALSE,
          is_auth |-> FALSE, endpoint |-> "/"]

\* The command each step awaits (cache.py lines 128-138, 242-250, 344-345)
WriteEffect(pc, a, r, t) ==
    CASE pc = "ri_sadd" -> sadd(r, <<"unique_ips", "">>, a.source_ip)
      [] pc = "ri_expire" -> expire(r, <<"unique_ips", "">>, 3600, t)
      [] pc = "rr_zadd" -> zadd(r, Key("requests", a.source_ip), a.ts)
      [] pc = "rr_sadd" -> sadd(r, Key("endpoints", a.source_ip), a.endpoint)
      [] pc = "rr_expire_endpoints" -> expire(r, Key("endpoints", a.source_ip), 3600, t)
      [] pc = "rr_expire_requests" -> expire(r, Key("requests", a.source_ip), 3600, t)
      [] pc = "rl_zadd_all" -> zadd(r, Key("login_attempts", a.source_ip), a.ts)
      [] pc = "rl_zadd_failed" -> zadd(r, Key("login_attempts:failed", a.source_ip), a.ts)
      [] pc = "rl_expire_all" -> expire(r, Key("login_attempts", a.source_ip), 604800, t)
      [] pc = "rl_expire_failed" ->
            expire(r, Key("login_attempts:failed", a.source_ip), 604800, t)

\* The sorted-set key a step ZADDs to, if it is a ZADD
ZaddKey(pc, a) ==
    CASE pc = "rr_zadd" -> Key("requests", a.source_ip)
      [] pc = "rl_zadd_all" -> Key("login_attempts", a.source_ip)
      [] pc = "rl_zadd_failed" -> Key("login_attempts:failed", a.source_ip)
      [] OTHER -> <<"none", a.source_ip>>

\* The step after pc: record_ip_activity, record_request and
\* record_login_attempt in themselves, and chained by _update_cache
\* (features.py lines 406-416) inside extract; "done" returns to the caller
NextWritePc(pc, a) ==
    CASE pc = "ri_sadd" -> "ri_expire"
      [] pc = "ri_expire" -> IF a.fn = "extract" THEN "rr_zadd" ELSE "done"
      [] pc = "rr_zadd" -> "rr_sadd"
      [] pc = "rr_sadd" -> "rr_expire_endpoints"
      [] pc = "rr_expire_endpoints" -> "rr_expire_requests"
      [] pc = "rr_expire_requests" ->
            IF a.fn = "extract" /\ a.is_auth THEN "rl_zadd_all" ELSE "done"
      [] pc = "rl_zadd_all" -> IF ~a.success THEN "rl_zadd_failed" ELSE "rl_expire_all"
      [] pc = "rl_zadd_failed" -> "rl_expire_all"
      [] pc = "rl_expire_all" -> IF ~a.success THEN "rl_expire_failed" ELSE "done"
      [] pc = "rl_expire_failed" -> "done"

WritePcs == {"ri_sadd", "ri_expire", "rr_zadd", "rr_sadd", "rr_expire_endpoints",
             "rr_expire_requests", "rl_zadd_all", "rl_zadd_failed", "rl_expire_all",
             "rl_expire_failed"}

\* What a call keeps while it runs.  The feature fields are what extract has
\* read so far; the rest is bookkeeping for the properties: the data set and
\* the clock as the call found them, whether another call wrote or a key
\* expired meanwhile, the faults met by reads and writes, the commands of its
\* own applied so far, the clock value get_failed_auth_rate took as "now",
\* the events whose extraction had returned, written, before this call began
NoLoc ==
    [login_attempts_per_minute |-> Frac(0, 1), requests_per_second |-> Frac(0, 1),
     unique_ips_last_hour |-> Frac(0, 1), unique_endpoints_accessed |-> Frac(0, 1),
     failed_auth_rate |-> Frac(0, 1), time_since_last_activity_sec |-> Frac(0, 1),
     session_duration_sec |-> Frac(0, 1), total |-> 0,
     pre |-> EmptyRedis, othersWrote |-> FALSE, keysExpired |-> FALSE,
     readFaults |-> {}, writeFault |-> "ok", ownWrites |-> 0, ownWritesAtRead |-> 0,
     failedAsOf |-> 0, prior |-> {}]

\* What a call returned: status "ok" or the exception raised, the locals it
\* ended with, and whether its event was in the data set when it returned
OutOf(status, a, loc, written) ==
    [status |-> status, arg |-> a, loc |-> loc, written |-> written]

NoCallOut == OutOf("none", NoArg, NoLoc, FALSE)

\* No window query answered yet
NoQuery ==
    [fn |-> "none", source_ip |-> "10.0.0.1", window_seconds |-> 0, as_of |-> 0,
     fault |-> "ok", res |-> Frac(0, 1), count |-> 0, busy |-> FALSE]

\* The event of call a is in the data set r
EventWritten(r, a) ==
    /\ a.fn \in {"extract", "record_ip_activity"} => a.source_ip \in r.s[<<"unique_ips", "">>]
    /\ a.fn \in {"extract", "record_request"} =>
          /\ a.ts \in r.z[Key("requests", a.source_ip)]
          /\ a.endpoint \in r.s[Key("endpoints", a.source_ip)]
    /\ (a.fn = "record_login_attempt" \/ (a.fn = "extract" /\ a.is_auth)) =>
          /\ a.ts \in r.z[Key("login_attempts", a.source_ip)]
          /\ ~a.success => a.ts \in r.z[Key("login_attempts:failed", a.source_ip)]

\* Mark every other running call as having seen a foreign write
MarkOthers(locs, c) ==
    [d \in Calls |-> IF d # c /\ callPc[d] # "idle"
                     THEN [locs[d] EXCEPT !.othersWrote = TRUE] ELSE locs[d]]

\* A script or handler calls record_login_attempt / record_request /
\* record_ip_activity directly
RecordStart(c, fn, ip, ts, success, endpoint) ==
    /\ callPc[c] = "idle"
    /\ \A d \in Calls : d < c => callPc[d] # "idle"
    /\ opCount < MaxOps
    /\ opCount' = opCount + 1
    /\ callArg' = [callArg EXCEPT ![c] =
                      [fn |-> fn, source_ip |-> ip, ts |-> ts, success |-> success,
                       is_auth |-> (fn = "record_login_attempt"), endpoint |-> endpoint]]
    /\ callPc' = [callPc EXCEPT ![c] =
                      CASE fn = "record_login_attempt" -> "rl_zadd_all"
                        [] fn = "record_request" -> "rr_zadd"
                        [] fn = "record_ip_activity" -> "ri_sadd"]
    /\ callLoc' = [callLoc EXCEPT ![c] = NoLoc]
    /\ callOut' = [callOut EXCEPT ![c] = NoCallOut]
    /\ UNCHANGED <<redis_client, serverUp, redis, now, recorded, qOut, modelVars, ctorVars, apiVars>>

\* One awaited command of a record_* function.  A fault raises: out of a
\* directly called record_*, or into the handler of _update_cache, which logs
\* it and lets extract return its features
WriteStep(c) ==
    /\ callPc[c] \in WritePcs
    /\ LET a == callArg[c]
           pc == callPc[c]
           fault == IF pc \in {"ri_sadd", "rr_zadd", "rl_zadd_all"} THEN StoreFault
                    ELSE IF ~serverUp \/ redis_client = "none" THEN "RedisError" ELSE "ok"
           r2 == WriteEffect(pc, a, redis, now)
           zk == ZaddKey(pc, a)
       IN  IF fault # "ok"
           THEN /\ callPc' = [callPc EXCEPT ![c] = "idle"]
                /\ callOut' = [callOut EXCEPT ![c] =
                      OutOf(IF a.fn = "extract" THEN "ok" ELSE fault, a,
                            [callLoc[c] EXCEPT !.writeFault = fault],
                            EventWritten(redis, a))]
                /\ callLoc' = [callLoc EXCEPT ![c] = NoLoc]
                /\ UNCHANGED <<redis, recorded>>
           ELSE /\ redis' = r2
                /\ recorded' = IF zk[1] = "none" THEN recorded
                               ELSE [recorded EXCEPT ![zk][a.ts] = @ + 1]
                /\ LET loc2 == [callLoc[c] EXCEPT !.ownWrites = @ + 1]
                       locs == [MarkOthers(callLoc, c) EXCEPT ![c] = loc2]
                   IN  IF NextWritePc(pc, a) = "done"
                       THEN /\ callPc' = [callPc EXCEPT ![c] = "idle"]
                            /\ callOut' = [callOut EXCEPT ![c] =
                                  OutOf("ok", a, loc2, EventWritten(r2, a))]
                            /\ callLoc' = [locs EXCEPT ![c] = NoLoc]
                       ELSE /\ callPc' = [callPc EXCEPT ![c] = NextWritePc(pc, a)]
                            /\ callLoc' = locs
                            /\ UNCHANGED callOut
    /\ qOut' = IF redis' = redis THEN qOut ELSE NoQuery
    /\ UNCHANGED <<redis_client, serverUp, now, opCount, callArg, modelVars, ctorVars, apiVars>>

-----------------------------------------------------------------------------
\* FeatureEngineer.extract (ml/features.py) as a coroutine

\* Wall-clock times tried
NowSamples == {0, 3700}

\* Values tried for the np.random fallbacks of the _get_* wrappers
RandLogin == {Frac(5, 2)}                   \* np.random.uniform(0, 5)
RandRequest == {Frac(1, 1)}                 \* np.random.uniform(0.1, 2.0)
RandUniqueIps == {Frac(1, 1), Frac(49, 1)}  \* np.random.randint(1, 50)
RandEndpoints == {Frac(1, 1)}               \* np.random.randint(1, 20)
RandFailed == {Frac(15, 100)}               \* np.random.uniform(0.0, 0.3)
RandTimeSince == {Frac(150, 1)}             \* np.random.uniform(1, 300)
RandSession == {Frac(10, 1)}                \* np.random.uniform(10, 3600)

\* The wrappers' "except Exception": the query's value, or a random one
OrRandom(q, rand) == IF q.status = "ok" THEN {q} ELSE rand

\* extract returning without a call of _update_cache
NoUpdateCachePc == "done"

\* The first awaited command of extract, and of _update_cache inside it
ExtractFirstPc == "rd_login"
UpdateCacheFirstPc == "ri_sadd"

ReadPcs == {"rd_login", "rd_request", "rd_unique_ips", "rd_unique_endpoints",
            "rd_failed_total", "rd_failed_failed", "rd_time_since", "rd_session"}

\* The order of the awaited reads (features.py lines 219-250); the read of
\* the failed attempts is skipped when get_failed_auth_rate has already ended
NextReadPc(pc, fault) ==
    CASE pc = "rd_login" -> "rd_request"
      [] pc = "rd_request" -> "rd_unique_ips"
      [] pc = "rd_unique_ips" -> "rd_unique_endpoints"
      [] pc = "rd_unique_endpoints" -> "rd_failed_total"
      [] pc = "rd_failed_total" -> IF fault = "ok" THEN "rd_failed_failed" ELSE "rd_time_since"
      [] pc = "rd_failed_failed" -> "rd_time_since"
      [] pc = "rd_time_since" -> "rd_session"
      [] pc = "rd_session" -> UpdateCacheFirstPc

\* The feature a read step assigns
ReadField(pc) ==
    CASE pc = "rd_login" -> "login_attempts_per_minute"
      [] pc = "rd_request" -> "requests_per_second"
      [] pc = "rd_unique_ips" -> "unique_ips_last_hour"
      [] pc = "rd_unique_endpoints" -> "unique_endpoints_accessed"
      [] pc \in {"rd_failed_total", "rd_failed_failed"} -> "failed_auth_rate"
      [] pc = "rd_time_since" -> "time_since_last_activity_sec"
      [] pc = "rd_session" -> "session_duration_sec"

\* get_failed_auth_rate (cache.py lines 179-217) has two awaited commands
\* zcount(key_all, window_start, timestamp_seconds)
failed_auth_total(r, source_ip, window_seconds, as_of) ==
    zcount(r, Key("login_attempts", source_ip), WindowStart(as_of, window_seconds), as_of)

\* zcount(key_failed, ...), then "if total == 0: return 0.0; return failed / total"
failed_auth_ratio(r, source_ip, window_seconds, as_of, total) ==
    IF total = 0 THEN Frac(0, 1)
    ELSE Frac(zcount(r, Key("login_attempts:failed", source_ip),
                     WindowStart(as_of, window_seconds), as_of), total)

\* get_failed_auth_rate with both commands answered from one data set
get_failed_auth_rate(fault, r, source_ip, window_seconds, as_of) ==
    IF fault = "RuntimeError" THEN Raised("RuntimeError")
    ELSE IF fault = "RedisError" THEN Frac(0, 1)
    ELSE failed_auth_ratio(r, source_ip, window_seconds, as_of,
                           failed_auth_total(r, source_ip, window_seconds, as_of))

\* _get_session_duration: a random duration when time_since < 1800, else 0.0
session_duration(time_since) ==
    IF time_since.num < 1800 * time_since.den THEN RandSession ELSE {Frac(0, 1)}

\* The values a read step may assign to its feature
ReadValues(pc, a, loc, fault, r, t) ==
    CASE pc = "rd_login" ->
            OrRandom(get_login_attempts_rate(fault, r, a.source_ip, 60, a.ts), RandLogin)
      [] pc = "rd_request" ->
            OrRandom(get_requests_per_second(fault, r, a.source_ip, 60, a.ts), RandRequest)
      [] pc = "rd_unique_ips" -> OrRandom(get_unique_ips_last_hour(fault, r), RandUniqueIps)
      [] pc = "rd_unique_endpoints" ->
            OrRandom(get_unique_endpoints_accessed(fault, r, a.source_ip), RandEndpoints)
      [] pc = "rd_failed_total" ->
            IF fault = "RuntimeError" THEN RandFailed ELSE {Frac(0, 1)}
      [] pc = "rd_failed_failed" ->
            IF fault # "ok" THEN {Frac(0, 1)}
            ELSE {failed_auth_ratio(r, a.source_ip, 300, loc.failedAsOf, loc.total)}
      [] pc = "rd_time_since" ->
            OrRandom(get_time_since_last_activity(fault, r, a.source_ip, a.ts), RandTimeSince)
      [] pc = "rd_session" ->
            UNION {session_duration(q) :
                     q \in OrRandom(get_time_since_last_activity(fault, r, a.source_ip, a.ts),
                                    RandTimeSince)}

\* analyze_log calls extract(parsed_log) for an event of source_ip at ts; the
\* coroutine runs without suspension up to its first awaited read, which is
\* where it finds the data set "before the call"
ExtractStart(c, ip, ts, is_auth, success, endpoint) ==
    /\ callPc[c] = "idle"
    /\ \A d \in Calls : d < c => callPc[d] # "idle"
    /\ opCount < MaxExtracts
    /\ opCount' = opCount + 1
    /\ callArg' = [callArg EXCEPT ![c] =
                      [fn |-> "extract", source_ip |-> ip, ts |-> ts, success |-> success,
                       is_auth |-> is_auth, endpoint |-> endpoint]]
    /\ callPc' = [callPc EXCEPT ![c] = ExtractFirstPc]
    /\ callLoc' = [callLoc EXCEPT ![c] =
                      [NoLoc EXCEPT !.prior =
                          {callOut[d].arg : d \in {e \in Calls : callOut[e].status = "ok"
                                                       /\ callOut[e].arg.fn = "extract"
                                                       /\ callOut[e].written}}]]
    /\ callOut' = [callOut EXCEPT ![c] = NoCallOut]
    /\ UNCHANGED <<redis_client, serverUp, redis, now, recorded, qOut, modelVars, ctorVars, apiVars>>

\* One awaited read of extract
ReadStep(c) ==
    /\ callPc[c] \in ReadPcs
    /\ LET a == callArg[c]
           pc == callPc[c]
           loc == callLoc[c]
           fault == IF pc = "rd_failed_failed"
                    THEN (IF ~serverUp \/ redis_client = "none" THEN "RedisError" ELSE "ok")
                    ELSE StoreFault
       IN  \E v \in ReadValues(pc, a, loc, fault, redis, now) :
              LET loc2 == [loc EXCEPT
                             ![ReadField(pc)] = v,
                             !.total = IF pc = "rd_failed_total" /\ fault = "ok"
                                       THEN failed_auth_total(redis, a.source_ip, 300, now)
                                       ELSE @,
                             !.failedAsOf = IF pc = "rd_failed_total" THEN now ELSE @,
                             !.pre = IF pc = "rd_login" THEN redis ELSE @,
                             !.othersWrote = IF pc = "rd_login" THEN FALSE ELSE @,
                             !.keysExpired = IF pc = "rd_login" THEN FALSE ELSE @,
                             !.readFaults = @ \cup {fault},
                             !.ownWritesAtRead = loc.ownWrites]
              IN  IF NextReadPc(pc, fault) = "done"
                  THEN /\ callPc' = [callPc EXCEPT ![c] = "idle"]
                       /\ callOut' = [callOut EXCEPT ![c] =
                             OutOf("ok", a, loc2, EventWritten(redis, a))]
                       /\ callLoc' = [callLoc EXCEPT ![c] = NoLoc]
                  ELSE /\ callPc' = [callPc EXCEPT ![c] = NextReadPc(pc, fault)]
                       /\ callLoc' = [callLoc EXCEPT ![c] = loc2]
                       /\ UNCHANGED callOut
    /\ UNCHANGED <<redis_client, serverUp, redis, now, recorded, opCount, callArg, qOut,
                   modelVars, ctorVars, apiVars>>

-----------------------------------------------------------------------------
\* Direct window queries, the clock, and the Redis connection

QueryFns == {"get_login_attempts_rate", "get_requests_per_second"}

\* The sorted set a window query counts in
QueryKey(fn, source_ip) ==
    IF fn = "get_login_attempts_rate" THEN Key("login_attempts", source_ip)
    ELSE Key("requests", source_ip)

\* The value a window query returns
QueryResult(fn, fault, r, source_ip, window_seconds, as_of) ==
    IF fn = "get_login_attempts_rate"
    THEN get_login_attempts_rate(fault, r, source_ip, window_seconds, as_of)
    ELSE get_requests_per_second(fault, r, source_ip, window_seconds, as_of)

\* The reply of the query's ZCOUNT (cache.py lines 169 and 279)
QueryCount(fn, r, source_ip, window_seconds, as_of) ==
    zcount(r, QueryKey(fn, source_ip), WindowStart(as_of, window_seconds), as_of)

\* A caller awaits one window query.  qOut keeps what it returned, and
\* whether a record was still running, for as long as the data set it was
\* answered from stays as it is
Query(fn, ip, w, as_of) ==
    /\ qOut' = [fn |-> fn, source_ip |-> ip, window_seconds |-> w, as_of |-> as_of,
                fault |-> StoreFault,
                res |-> QueryResult(fn, StoreFault, redis, ip, w, as_of),
                count |-> QueryCount(fn, redis, ip, w, as_of),
                busy |-> \E c \in Calls : callPc[c] # "idle"]
    /\ UNCHANGED <<redis_client, serverUp, redis, now, recorded, opCount, callPc, callArg,
                   callLoc, callOut, modelVars, ctorVars, apiVars>>

\* The request that awaits call c is dropped: asyncio raises CancelledError
\* at the await the coroutine is suspended in.  CancelledError is not an
\* Exception, so neither _update_cache nor the _get_* wrappers catch it, and
\* the commands not yet issued are never issued
Cancel(c) ==
    /\ callPc[c] \in WritePcs \cup ReadPcs
    /\ callPc' = [callPc EXCEPT ![c] = "idle"]
    /\ callOut' = [callOut EXCEPT ![c] =
                      OutOf("CancelledError", callArg[c], callLoc[c],
                            EventWritten(redis, callArg[c]))]
    /\ callLoc' = [callLoc EXCEPT ![c] = NoLoc]
    /\ UNCHANGED <<redis_client, serverUp, redis, now, recorded, opCount, callArg, qOut,
                   modelVars, ctorVars, apiVars>>

\* Time passes until second t; the server drops the keys whose expiry has come
TickTo(t) ==
    /\ t > now
    /\ now' = t
    /\ redis' = ExpireKeys(redis, t)
    /\ recorded' = [k \in ZKeys |->
                       IF redis.ttl[k] >= 0 /\ redis.ttl[k] <= t
                       THEN [ts \in TsSamples |-> 0] ELSE recorded[k]]
    /\ callLoc' = [c \in Calls |->
                      IF callPc[c] # "idle" /\ ExpireKeys(redis, t) # redis
                      THEN [callLoc[c] EXCEPT !.keysExpired = TRUE] ELSE callLoc[c]]
    /\ qOut' = IF ExpireKeys(redis, t) = redis THEN qOut ELSE NoQuery
    /\ UNCHANGED <<redis_client, serverUp, opCount, callPc, callArg, callOut, modelVars, ctorVars, apiVars>>

Tick == \E t \in NowSamples : TickTo(t)

\* init_redis (cache.py lines 24-66): the client is assigned before the ping
InitRedis ==
    /\ redis_client = "none"
    /\ redis_client' = "set"
    /\ UNCHANGED <<serverUp, redis, now, recorded, opCount, callPc, callArg, callLoc,
                   callOut, qOut, modelVars, ctorVars, apiVars>>

\* Nothing recorded, no client, no call running
AggIdleInit ==
    /\ redis_client = "none"
    /\ serverUp = TRUE
    /\ redis = EmptyRedis
    /\ now = 0
    /\ recorded = [k \in ZKeys |-> [ts \in TsSamples |-> 0]]
    /\ opCount = 0
    /\ callPc = [c \in Calls |-> "idle"]
    /\ callArg = [c \in Calls |-> NoArg]
    /\ callLoc = [c \in Calls |-> NoLoc]
    /\ callOut = [c \in Calls |-> NoCallOut]
    /\ qOut = NoQuery

-----------------------------------------------------------------------------
\* The model store, model core and prediction service together

\* predict(features, ensemble_weights=...): the configured weights, or None
\* and with it the default of line 149
PredictWeights == {settings_weights, <<5000, 3000, 2000>>}


DefaultWeights == <<5000, 3000, 2000>>

\* Settings(): ENSEMBLE_WEIGHTS passed validate_ensemble_weights
SettingsInit ==
    settings_weights \in {w \in WeightSamples : validate_ensemble_weights(w)}

\* No training script has run, the model directory is empty
EnsembleInit ==
    /\ files = [p \in Paths |-> NoFile]
    /\ saveClock = 1
    /\ nextVer = 1
    /\ ens = NoEns
    /\ ensOut = NoOut
    /\ global_ensemble = NoEns
    /\ getOut = GetOut("none", 0, "none")

\* ModelLoader() constructed, no thread inside load_model or predict
LoaderIdleInit ==
    /\ ldr = NewLoader
    /\ loadPc = "idle"
    /\ loadLoc = NoLoadLoc
    /\ loadOut = "none"
    /\ predPc = "idle"
    /\ predLoc = NoPredLoc
    /\ predOut = NoPredOut
    /\ loadCount = 0
    /\ origin = [f \in LoaderFields |-> 0]
    /\ SingletonInit
    /\ ApiIdleInit

\* A training script: the life of one AnomalyEnsemble instance and of the
\* artifacts it writes and reads back (the script passes its own weights, so
\* the configured ones are left at their default)
Init ==
    /\ settings_weights = DefaultWeights
    /\ EnsembleInit
    /\ LoaderIdleInit
    /\ AggIdleInit

Next ==
    \/ \E w \in WeightSamples : EnsInit(w)
    \/ \E labels \in SUBSET Labels : Train(labels)
    \/ \E x \in Vectors : EnsPredict(x)
    \/ Save
    \/ TickSave
    \/ \E p \in Paths : EnsLoad(p)

Spec == Init /\ [][Next]_vars

\* Artifacts found in the model directory when the API process starts: none,
\* an unreadable file, what save() writes for a never trained ensemble, for the
\* ensembles of a training run whose clustering found only noise and of two
\* runs that found clusters, and a dict of another producer without one
\* required key
ArtifactSamples ==
    LET fresh == NewEnsemble(DefaultWeights, dbscan_eps)
        run0 == ens_train(fresh, {}, 1)
        run1 == ens_train(fresh, {0}, 1)
        run2 == ens_train(fresh, Labels, MaxVer)
    IN  { NoFile, Corrupt,
          DictFile(SavedKeys, fresh),
          DictFile(SavedKeys, run0),
          DictFile(SavedKeys, run1),
          DictFile(SavedKeys, run2),
          DictFile(SavedKeys \ {"gmm"}, run2) }

\* The API process: one thread may be inside load_model while another is
\* inside predict; the model directory was filled by earlier training runs
LoaderInit ==
    /\ SettingsInit
    /\ files \in [Paths -> ArtifactSamples]
    /\ saveClock = 1
    /\ nextVer = 1
    /\ ens = NoEns
    /\ ensOut = NoOut
    /\ global_ensemble = NoEns
    /\ getOut = GetOut("none", 0, "none")
    /\ LoaderIdleInit
    /\ AggIdleInit

LoaderNext ==
    \/ \E p \in Paths : LoadStart(p)
    \/ LoadRead
    \/ LoadAssign
    \/ \E x \in Vectors, w \in PredictWeights : PredStart(x, w)
    \/ PredScale
    \/ PredIsolationForest
    \/ PredGmm
    \/ PredDbscan
    \/ PredAggregate

SpecLoader == LoaderInit /\ [][LoaderNext]_vars

\* eps values the training scripts construct the ensemble with, tenths:
\* settings.dbscan_eps and train_ensemble.py's dbscan_eps=5.0
EpsSamples == {dbscan_eps, 50}

\* What save() writes after a training run of an ensemble built with eps e
EpsArtifacts ==
    {DictFile(SavedKeys, ens_train(NewEnsemble(DefaultWeights, e), labels, 1)) :
        e \in EpsSamples, labels \in {{0}, Labels}}

\* The API process over a model directory filled by training runs that used
\* different eps
EpsInit ==
    /\ SettingsInit
    /\ files \in [Paths -> EpsArtifacts]
    /\ saveClock = 1
    /\ nextVer = 1
    /\ ens = NoEns
    /\ ensOut = NoOut
    /\ global_ensemble = NoEns
    /\ getOut = GetOut("none", 0, "none")
    /\ LoaderIdleInit
    /\ AggIdleInit

SpecEps == EpsInit /\ [][LoaderNext]_vars

\* A process reading artifacts: get_ensemble() and AnomalyEnsemble.load over a
\* model directory filled by earlier training runs, and predict on what they
\* return
GlobalNext ==
    \/ GetEnsemble
    \/ \E p \in Paths : EnsLoad(p)
    \/ \E x \in Vectors : EnsPredict(x)
    \/ \E x \in Vectors : GlobalPredict(x)

SpecGlobal == LoaderInit /\ [][GlobalNext]_vars

\* The aggregator on its own: scripts and handlers record events of two
\* sources and ask window queries about one of them while the clock runs
AggInit ==
    /\ settings_weights = DefaultWeights
    /\ EnsembleInit
    /\ LoaderIdleInit
    /\ AggIdleInit

AggNext ==
    \/ \E c \in Calls, ip \in IPs, ts \in TsSamples, success \in BOOLEAN :
          RecordStart(c, "record_login_attempt", ip, ts, success, "/")
    \/ \E c \in Calls, ip \in IPs, ts \in TsSamples :
          RecordStart(c, "record_request", ip, ts, FALSE, "/")
    \/ \E c \in Calls, ip \in IPs : RecordStart(c, "record_ip_activity", ip, 0, FALSE, "/")
    \/ \E c \in Calls : WriteStep(c)
    \/ \E fn \in QueryFns, w \in WindowSamples, as_of \in AsOfSamples :
          Query(fn, "10.0.0.1", w, as_of)
    \/ Tick
    \/ InitRedis

SpecAgg == AggInit /\ [][AggNext]_vars

\* parsed_log's event_type and success: not a login, a successful login, a
\* failed login
EventKinds == {[is_auth |-> FALSE, success |-> FALSE], [is_auth |-> TRUE, success |-> TRUE],
               [is_auth |-> TRUE, success |-> FALSE]}

\* The analysis path: concurrent requests inside FeatureEngineer.extract for
\* events of one source and one second, in a process that did or did not call init_redis,
\* with the server reachable or not
ExtractInit ==
    /\ settings_weights = DefaultWeights
    /\ EnsembleInit
    /\ LoaderIdleInit
    /\ redis_client \in {"none", "set"}
    /\ serverUp \in BOOLEAN
    /\ redis = EmptyRedis
    /\ now = 0
    /\ recorded = [k \in ZKeys |-> [ts \in TsSamples |-> 0]]
    /\ opCount = 0
    /\ callPc = [c \in Calls |-> "idle"]
    /\ callArg = [c \in Calls |-> NoArg]
    /\ callLoc = [c \in Calls |-> NoLoc]
    /\ callOut = [c \in Calls |-> NoCallOut]
    /\ qOut = NoQuery

ExtractNext ==
    \/ \E c \in Calls, kind \in EventKinds :
          ExtractStart(c, "10.0.0.1", 0, kind.is_auth, kind.success, "/admin")
    \/ \E c \in Calls : ReadStep(c)
    \/ \E c \in Calls : WriteStep(c)
    \/ Tick

SpecExtract == ExtractInit /\ [][ExtractNext]_vars

\* The data set after one completed record_login_attempt(ip, False, ts) at
\* wall-clock time t
AfterFailedLogin(ip, ts, t) ==
    expire(expire(zadd(zadd(EmptyRedis, Key("login_attempts", ip), ts),
                       Key("login_attempts:failed", ip), ts),
                  Key("login_attempts", ip), 604800, t),
           Key("login_attempts:failed", ip), 604800, t)

\* A source with one failed login on record, at second 60 of the wall clock:
\* requests for its events run extract while its further logins are recorded
RateInit ==
    /\ settings_weights = DefaultWeights
    /\ EnsembleInit
    /\ LoaderIdleInit
    /\ redis_client = "set"
    /\ serverUp = TRUE
    /\ redis = AfterFailedLogin("10.0.0.1", 0, 0)
    /\ now = 60
    /\ recorded = [k \in ZKeys |-> [ts \in TsSamples |->
                      IF k \in {Key("login_attempts", "10.0.0.1"),
                                 Key("login_attempts:failed", "10.0.0.1")} /\ ts = 0
                      THEN 1 ELSE 0]]
    /\ opCount = 0
    /\ callPc = [c \in Calls |-> "idle"]
    /\ callArg = [c \in Calls |-> NoArg]
    /\ callLoc = [c \in Calls |-> NoLoc]
    /\ callOut = [c \in Calls |-> NoCallOut]
    /\ qOut = NoQuery

RateNext ==
    \/ \E c \in Calls, ts \in TsSamples, success \in BOOLEAN :
          RecordStart(c, "record_login_attempt", "10.0.0.1", ts, success, "/")
    \/ \E c \in Calls : ExtractStart(c, "10.0.0.1", 60, FALSE, FALSE, "/")
    \/ \E c \in Calls : ReadStep(c)
    \/ \E c \in Calls : WriteStep(c)

SpecRate == RateInit /\ [][RateNext]_vars

\* The queries without a window: the gap since the last request of a source,
\* and the two set-valued counters, which are asked at the wall-clock time
CounterFns == {"get_time_since_last_activity", "get_unique_ips_last_hour",
               "get_unique_endpoints_accessed"}

CounterResult(fn, fault, r, source_ip, as_of) ==
    CASE fn = "get_time_since_last_activity" ->
            get_time_since_last_activity(fault, r, source_ip, as_of)
      [] fn = "get_unique_ips_last_hour" -> get_unique_ips_last_hour(fault, r)
      [] fn = "get_unique_endpoints_accessed" ->
            get_unique_endpoints_accessed(fault, r, source_ip)

\* A caller awaits one of them; count keeps the reply of its one command
CounterQuery(fn, ip, as_of) ==
    /\ fn = "get_time_since_last_activity" \/ as_of = now
    /\ qOut' = [fn |-> fn, source_ip |-> ip, window_seconds |-> 0, as_of |-> as_of,
                fault |-> StoreFault,
                res |-> CounterResult(fn, StoreFault, redis, ip, as_of),
                count |-> CASE fn = "get_time_since_last_activity" ->
                                  zrevrange_top(redis, Key("requests", ip))
                            [] fn = "get_unique_ips_last_hour" ->
                                  scard(redis, <<"unique_ips", "">>)
                            [] fn = "get_unique_endpoints_accessed" ->
                                  scard(redis, Key("endpoints", ip)),
                busy |-> \E c \in Calls : callPc[c] # "idle"]
    /\ UNCHANGED <<redis_client, serverUp, redis, now, recorded, opCount, callPc, callArg,
                   callLoc, callOut, modelVars, ctorVars, apiVars>>

\* Wall-clock times of the second hour
HourSamples == {1800, 3700}

\* The data set after record_ip_activity(ip) and record_request(ip, endpoint,
\* ts), both completed at wall-clock time t
AfterRequest(ip, endpoint, ts, t) ==
    LET r1 == expire(sadd(EmptyRedis, <<"unique_ips", "">>, ip), <<"unique_ips", "">>, 3600, t)
        r2 == sadd(zadd(r1, Key("requests", ip), ts), Key("endpoints", ip), endpoint)
    IN  expire(expire(r2, Key("endpoints", ip), 3600, t), Key("requests", ip), 3600, t)

\* Source 10.0.0.1 and its endpoint "/" were observed at second 0 and are not
\* observed again: every later record is of the other source or the other
\* endpoint
HourInit ==
    /\ settings_weights = DefaultWeights
    /\ EnsembleInit
    /\ LoaderIdleInit
    /\ redis_client = "set"
    /\ serverUp = TRUE
    /\ redis = AfterRequest("10.0.0.1", "/", 0, 0)
    /\ now = 0
    /\ recorded = [k \in ZKeys |-> [ts \in TsSamples |->
                      IF k = Key("requests", "10.0.0.1") /\ ts = 0 THEN 1 ELSE 0]]
    /\ opCount = 0
    /\ callPc = [c \in Calls |-> "idle"]
    /\ callArg = [c \in Calls |-> NoArg]
    /\ callLoc = [c \in Calls |-> NoLoc]
    /\ callOut = [c \in Calls |-> NoCallOut]
    /\ qOut = NoQuery

HourNext ==
    \/ \E c \in Calls : RecordStart(c, "record_ip_activity", "10.0.0.2", 0, FALSE, "/")
    \/ \E c \in Calls, ts \in TsSamples :
          RecordStart(c, "record_request", "10.0.0.1", ts, FALSE, "/admin")
    \/ \E c \in Calls : WriteStep(c)
    \/ \E fn \in CounterFns, ip \in IPs, as_of \in TsSamples \cup {now} :
          CounterQuery(fn, ip, as_of)
    \/ \E t \in HourSamples : TickTo(t)

SpecHour == HourInit /\ [][HourNext]_vars

\* What a call on the store handle ended with: fault is the exception raised
\* ("ok": none), count the number of connection tests made
HandleOut(fn, fault, pings) ==
    [fn |-> fn, source_ip |-> "10.0.0.1", window_seconds |-> 0, as_of |-> now,
     fault |-> fault, res |-> Frac(0, 1), count |-> pings,
     busy |-> \E c \in Calls : callPc[c] # "idle"]

\* init_redis (cache.py lines 24-66): an existing client is returned as it
\* is; otherwise _redis_client is assigned, then the connection is tested and
\* a ConnectionError of the test is logged and raised again
init_redis ==
    /\ IF redis_client # "none"
       THEN /\ qOut' = HandleOut("init_redis", "ok", 0)
            /\ UNCHANGED redis_client
       ELSE /\ redis_client' = "set"
            /\ qOut' = HandleOut("init_redis",
                                  IF serverUp THEN "ok" ELSE "ConnectionError", 1)
    /\ UNCHANGED <<serverUp, redis, now, recorded, opCount, callPc, callArg, callLoc,
                   callOut, modelVars, ctorVars, apiVars>>

\* close_redis (cache.py lines 69-81)
close_redis ==
    /\ redis_client' = "none"
    /\ qOut' = IF redis_client = "none" THEN qOut ELSE HandleOut("close_redis", "ok", 0)
    /\ UNCHANGED <<serverUp, redis, now, recorded, opCount, callPc, callArg, callLoc,
                   callOut, modelVars, ctorVars, apiVars>>

\* get_redis (cache.py lines 84-98)
get_redis ==
    /\ qOut' = HandleOut("get_redis",
                          IF redis_client = "none" THEN "RuntimeError" ELSE "ok", 0)
    /\ UNCHANGED <<redis_client, serverUp, redis, now, recorded, opCount, callPc, callArg,
                   callLoc, callOut, modelVars, ctorVars, apiVars>>

\* The application's lifespan and its handlers use the store handle, with the
\* server reachable or not
StoreInit ==
    /\ settings_weights = DefaultWeights
    /\ EnsembleInit
    /\ LoaderIdleInit
    /\ redis_client = "none"
    /\ serverUp \in BOOLEAN
    /\ redis = EmptyRedis
    /\ now = 0
    /\ recorded = [k \in ZKeys |-> [ts \in TsSamples |-> 0]]
    /\ opCount = 0
    /\ callPc = [c \in Calls |-> "idle"]
    /\ callArg = [c \in Calls |-> NoArg]
    /\ callLoc = [c \in Calls |-> NoLoc]
    /\ callOut = [c \in Calls |-> NoCallOut]
    /\ qOut = NoQuery

StoreNext ==
    \/ init_redis
    \/ close_redis
    \/ get_redis
    \/ \E c \in Calls, ip \in IPs : RecordStart(c, "record_ip_activity", ip, 0, FALSE, "/")
    \/ \E c \in Calls : WriteStep(c)

SpecStore == StoreInit /\ [][StoreNext]_vars

\* Requests that record events and may be dropped while they do
CancelNext ==
    \/ \E c \in Calls, ip \in IPs, ts \in TsSamples, success \in BOOLEAN :
          RecordStart(c, "record_login_attempt", ip, ts, success, "/")
    \/ \E c \in Calls, ip \in IPs, ts \in TsSamples :
          RecordStart(c, "record_request", ip, ts, FALSE, "/")
    \/ \E c \in Calls, ip \in IPs : RecordStart(c, "record_ip_activity", ip, 0, FALSE, "/")
    \/ \E c \in Calls : WriteStep(c)
    \/ \E c \in Calls : Cancel(c)
    \/ Tick
    \/ InitRedis

SpecCancel == AggInit /\ [][CancelNext]_vars

\* The aggregator fed with the source identities a request can carry: logins
\* and requests are recorded for each of them
IdentNext ==
    \/ \E c \in Calls, ip \in SourceIds, ts \in TsSamples, success \in BOOLEAN :
          RecordStart(c, "record_login_attempt", ip, ts, success, "/")
    \/ \E c \in Calls, ip \in SourceIds, ts \in TsSamples :
          RecordStart(c, "record_request", ip, ts, FALSE, "/")
    \/ \E c \in Calls : WriteStep(c)
    \/ InitRedis

SpecIdent == AggInit /\ [][IdentNext]_vars

\* Threads of one process constructing and using the loader
SingletonNext ==
    \/ \E t \in Threads, fn \in {"ModelLoader", "get_model_loader"} : CtorStart(t, fn)
    \/ \E t \in Threads : GTest(t)
    \/ \E t \in Threads : NewTest(t)
    \/ \E t \in Threads : NewAssign(t)
    \/ \E t \in Threads : NewReturn(t)
    \/ \E t \in Threads : InitTest(t)
    \/ \E t \in Threads : InitFields(t)
    \/ \E t \in Threads : InitFlag(t)
    \/ \E t \in Threads : CtorReturn(t)
    \/ \E t \in Threads : GAssign(t)
    \/ \E t \in Threads : GReturn(t)
    \/ \E t \in Threads : CallerLoads(t)

SpecSingleton == Init /\ [][SingletonNext]_vars

\* The analysis endpoint under thresholds taken from the environment, with a
\* database that was or was not initialized and fails or does not
AnalyzeInit ==
    /\ settings_weights = DefaultWeights
    /\ EnsembleInit
    /\ ldr = NewLoader
    /\ loadPc = "idle"
    /\ loadLoc = NoLoadLoc
    /\ loadOut = "none"
    /\ predPc = "idle"
    /\ predLoc = NoPredLoc
    /\ predOut = NoPredOut
    /\ loadCount = 0
    /\ origin = [f \in LoaderFields |-> 0]
    /\ SingletonInit
    /\ AggIdleInit
    /\ settings_thresholds \in [low : ThresholdSamples, medium : ThresholdSamples,
                               high : ThresholdSamples]
    /\ async_session_factory = "none"
    /\ db_rows = [anomalies |-> 0, logs |-> 0]
    /\ anaCount = 0
    /\ anaOut = NoAnalysis
    /\ parsed_log = [f \in EventFields |-> "value"]
    /\ featOut = NoFeatures

AnalyzeNext ==
    \/ InitDb
    \/ \E score \in ScoreSamples, sub \in SubScoreSamples, fault \in DbFaults :
          Analyze(score, sub, fault)

SpecAnalyze == AnalyzeInit /\ [][AnalyzeNext]_vars

\* extract on event records with any of the fields missing or None
FieldsNext ==
    \/ ExtractFields
    \/ \E f \in EventFields, v \in Presence : SetField(f, v)

SpecFields == Init /\ [][FieldsNext]_vars

-----------------------------------------------------------------------------
\* Claims

\* C1: for every trained or loaded model, every well-formed vector and every
\* weight triple the configuration accepts, both AnomalyEnsemble.predict and
\* ModelLoader.predict return a risk_score r with 0 <= r <= 1.
C1_RiskScoreInUnitInterval ==
    /\ predOut.status = "ok" =>
          (0 <= predOut.risk_score /\ predOut.risk_score <= FOne)
    /\ (ensOut.op = "predict" /\ ensOut.status = "ok") =>
          (0 <= ensOut.risk_score /\ ensOut.risk_score <= One)

\* C2: predict() on a model that was never trained fails with RuntimeError
\* before the scaler or any sub-model is invoked, in every lifecycle state in
\* which the model is untrained (a loader holding the estimators of an
\* artifact saved from an untrained ensemble included).
C2_UntrainedPredictIsPreconditionError ==
    /\ (/\ predOut.status # "none"
        /\ predOut.untrainedAtStart
        /\ predOut.cleanStart
        /\ Cardinality(predOut.origins) <= 1)
          => (predOut.status = "RuntimeError" /\ ~predOut.scalerInvoked)
    /\ (ensOut.op = "predict" /\ ~ens.is_trained /\ ~global_ensemble.is_trained)
          => (ensOut.status = "RuntimeError" /\ ~ensOut.scalerInvoked)

\* C3: a predict() running concurrently with a reload computes its scaling,
\* sub-scores and centroid lookup from the components of one single artifact
\* (all old or all new): the estimators it used were fitted by one training
\* run, or at least every field it read was assigned by one load_model call.
C3_PredictReadsOneArtifact ==
    (predOut.status = "ok" /\ predOut.cleanStart)
        => (Cardinality(predOut.vers) = 1 \/ Cardinality(predOut.origins) = 1)

\* C4: a load_model that fails on a missing, corrupt or incompatible artifact
\* leaves the previously loaded model completely unchanged.
C4_FailedLoadKeepsPreviousModel ==
    (/\ loadPc = "idle"
     /\ loadOut \in {"FileNotFoundError", "ValueError"}
     /\ is_loaded(loadLoc.before))
        => ldr = loadLoc.before

\* C5: no load path swallows the failure on a corrupt or incompatible artifact
\* and leaves a silently substituted default (untrained) model active:
\* get_ensemble() must not return normally with such a model after the load of
\* the latest artifact failed.
C5_LoadFailureIsExplicit ==
    ~(/\ getOut.status = "ok"
      /\ getOut.loadStatus \notin {"none", "ok"}
      /\ global_ensemble.alive
      /\ ~global_ensemble.is_trained)

\* The six aggregated features of a returned vector
AggregatedFeatures ==
    {"login_attempts_per_minute", "requests_per_second", "unique_ips_last_hour",
     "unique_endpoints_accessed", "failed_auth_rate", "time_since_last_activity_sec"}

\* Completed extract calls
ExtractReturns == {c \in Calls : callOut[c].status # "none" /\ callOut[c].arg.fn = "extract"}

\* C6: when the store is not initialized or unreachable at every read of an
\* extraction, the extraction returns a vector (no exception) in which each of
\* the six aggregated features is 0
C6_UnavailableStoreYieldsZero ==
    \A c \in ExtractReturns :
       (callOut[c].loc.readFaults # {} /\ "ok" \notin callOut[c].loc.readFaults) =>
          /\ callOut[c].status = "ok"
          /\ \A f \in AggregatedFeatures : callOut[c].loc[f].num = 0

\* The entries of the queried key inside the half-open window (as_of - w, as_of]
EntriesInHalfOpenWindow(q) ==
    {ts \in redis.z[QueryKey(q.fn, q.source_ip)] :
        q.as_of - q.window_seconds < ts /\ ts <= q.as_of}

\* C7: a window query answered by the store does not raise and counts exactly
\* the entries with as_of - window_seconds < ts <= as_of, for every
\* window_seconds >= 0 (so it returns 0 for window_seconds = 0)
C7_WindowQueryCountsHalfOpenWindow ==
    (qOut.fn \in QueryFns /\ qOut.fault = "ok") =>
       /\ qOut.res.status = "ok"
       /\ qOut.count = Cardinality(EntriesInHalfOpenWindow(qOut))
       /\ qOut.res.num = 0 <=> EntriesInHalfOpenWindow(qOut) = {}

RECURSIVE SumOver(_, _)
SumOver(f, S) == IF S = {} THEN 0
                 ELSE LET x == CHOOSE y \in S : TRUE IN f[x] + SumOver(f, S \ {x})

\* The window of query q covers every entry recorded for its key
CoversAll(q) ==
    \A ts \in TsSamples :
       recorded[QueryKey(q.fn, q.source_ip)][ts] > 0 =>
          (q.as_of - q.window_seconds <= ts /\ ts <= q.as_of)

\* C8: after n records for one key and kind, several of them carrying the
\* same timestamp or not, a query whose window covers them all counts n
C8_RecordIsAdditive ==
    (qOut.fn \in QueryFns /\ qOut.fault = "ok" /\ ~qOut.busy /\ CoversAll(qOut)) =>
       qOut.count = SumOver(recorded[QueryKey(qOut.fn, qOut.source_ip)], TsSamples)

FeaturesFromPre(o) ==
    LET a == o.arg
        pre == o.loc.pre
    IN  /\ o.loc.login_attempts_per_minute =
              get_login_attempts_rate("ok", pre, a.source_ip, 60, a.ts)
        /\ o.loc.requests_per_second = get_requests_per_second("ok", pre, a.source_ip, 60, a.ts)
        /\ o.loc.unique_ips_last_hour = get_unique_ips_last_hour("ok", pre)
        /\ o.loc.unique_endpoints_accessed =
              get_unique_endpoints_accessed("ok", pre, a.source_ip)
        /\ o.loc.failed_auth_rate =
              get_failed_auth_rate("ok", pre, a.source_ip, 300, o.loc.failedAsOf)
        /\ o.loc.time_since_last_activity_sec =
              get_time_since_last_activity("ok", pre, a.source_ip, a.ts)

StartedAfter(o, a) == a \in o.loc.prior /\ EventWritten(o.loc.pre, a)

\* The window of w seconds ending at as_of covers timestamp ts
Covers(as_of, w, ts) == as_of - w < ts /\ ts <= as_of

\* C11: an extraction that starts after the write of an event of the same
\* source has completed, whose reads are all answered and during which no
\* key expires, observes the event in every windowed feature whose window covers the event's timestamp:
\* login-attempt rate and failed-auth rate (for a login event), request rate,
\* time since last activity
C11_LaterExtractionObservesEvent ==
    \A c \in ExtractReturns :
       \A a \in callOut[c].loc.prior :
          LET o == callOut[c]
          IN  (StartedAfter(o, a) /\ a.source_ip = o.arg.source_ip
                  /\ o.loc.readFaults = {"ok"} /\ ~o.loc.keysExpired) =>
                 /\ Covers(o.arg.ts, 60, a.ts) => o.loc.requests_per_second.num >= 1
                 /\ (a.is_auth /\ Covers(o.arg.ts, 60, a.ts)) =>
                       o.loc.login_attempts_per_minute.num >= 1
                 /\ (a.is_auth /\ ~a.success /\ Covers(o.arg.ts, 300, a.ts)) =>
                       o.loc.failed_auth_rate.num >= 1
                 /\ a.ts <= o.arg.ts =>
                       o.loc.time_since_last_activity_sec.num <= o.arg.ts - a.ts

\* Call c has inserted into key k and has not yet issued the EXPIRE of k
InUpdate(c, k) ==
    LET a == callArg[c]
        pc == callPc[c]
    IN  \/ k = <<"unique_ips", "">> /\ pc = "ri_expire"
        \/ k = Key("requests", a.source_ip)
              /\ pc \in {"rr_sadd", "rr_expire_endpoints", "rr_expire_requests"}
        \/ k = Key("endpoints", a.source_ip) /\ pc = "rr_expire_endpoints"
        \/ k = Key("login_attempts", a.source_ip) /\ pc \in {"rl_zadd_failed", "rl_expire_all"}
        \/ k = Key("login_attempts:failed", a.source_ip)
              /\ pc \in {"rl_expire_all", "rl_expire_failed"}

\* C12: dropped requests leave no counter half-updated: a key that holds
\* entries, and that no running call is in the middle of updating, has the
\* expiry its insertions set
C12_NoCounterHalfUpdated ==
    \A k \in ZKeys \cup SKeys :
       (KeyExists(redis, k) /\ ~\E c \in Calls : InUpdate(c, k)) => redis.ttl[k] >= 0

\* What the queries answer about source b from the data set r, over a window
\* that covers every sampled timestamp
QueriesOf(r, b) ==
    <<get_login_attempts_rate("ok", r, b, 120, 60),
      get_requests_per_second("ok", r, b, 120, 60),
      get_failed_auth_rate("ok", r, b, 120, 60),
      get_unique_endpoints_accessed("ok", r, b),
      get_time_since_last_activity("ok", r, b, 60)>>

\* C13: a command of a record operation for source A leaves every window
\* count, the failed-auth rate, the unique-endpoint count and the time since
\* last activity of every other source B as they were
C13_DistinctIdentitiesIndependent ==
    [][\A c \in Calls, b \in SourceIds :
          (callPc[c] \in WritePcs /\ callPc'[c] # callPc[c] /\ callArg[c].source_ip # b)
             => QueriesOf(redis', b) = QueriesOf(redis, b)]_vars

\* C14: a construction of AnomalyEnsemble with weights w is accepted exactly
\* when Settings.validate_ensemble_weights accepts w, that is when the three
\* weights sum to 1.0 within 0.001, and raises ValueError otherwise
C14_WeightsAcceptedIffSumIsOne ==
    [][\A w \in WeightSamples :
          EnsInit(w) => ((ensOut'.status = "ok") <=> validate_ensemble_weights(w))]_vars

\* The density score as a function of the distance to the nearest stored
\* centroid: 0.9 without centroids or beyond 2 x eps, else
\* min(distance / normalizer, 1.0); normalizer in tenths like the distances
DensityScore(cc, eps, sv, x, normalizer) ==
    IF CentroidLabels(cc) = {} THEN 900
    ELSE IF MinDist(cc, sv, x) > 2 * eps THEN 900
    ELSE Min((MinDist(cc, sv, x) * One) \div normalizer, One)

\* The returned prediction read every scoring field from the load_model call
\* whose assignments the loader still holds
PredictedFromLoaded ==
    /\ predOut.status = "ok"
    /\ \A f \in ScoringFields : predOut.origins = {origin[f]}

\* C15: a prediction of a loaded model scores the density of a point 0.9 when
\* its nearest stored centroid is farther than 2 x eps or when no centroid is
\* stored, and min(distance / normalizer, 1.0) otherwise (0.0 at a centroid),
\* with normalizer 5.0 in ModelLoader.predict and 10.0 in
\* AnomalyEnsemble.predict
C15_DbscanScoreFromNearestCentroid ==
    /\ PredictedFromLoaded =>
          predOut.dbscan_score =
             DensityScore(ldr.cluster_centroids, ldr.dbscan.eps, ldr.scaler.ver,
                          predOut.x, 50)
    /\ \A p \in Paths, x \in Vectors :
          (ens_load_status(files[p]) = "ok"
              /\ ens_predict(ens_load_value(files[p]), x).status = "ok") =>
             ens_predict(ens_load_value(files[p]), x).dbscan_score =
                DensityScore(files[p].cluster_centroids, files[p].dbscan.eps,
                             files[p].scaler.ver, x, 100)

\* A point one unit away from its nearest centroid scored by the loader
C15_Witness ==
    /\ PredictedFromLoaded
    /\ CentroidLabels(ldr.cluster_centroids) # {}
    /\ predOut.dbscan_score = 200

\* A point beyond 2 x eps of every stored centroid scored
C15_WitnessOutlier ==
    /\ PredictedFromLoaded
    /\ CentroidLabels(ldr.cluster_centroids) # {}
    /\ MinDist(ldr.cluster_centroids, ldr.scaler.ver, predOut.x) > 2 * ldr.dbscan.eps

\* C16: the confidence reported with a prediction is the tier of the standard
\* deviation of its three sub-scores: below 0.1 high, below 0.2 medium, else
\* low
C16_ConfidenceFromSubScoreSpread ==
    predOut.status = "ok" =>
       risk_decision(predOut.risk_score).confidence =
          ens_confidence(predOut.isolation_forest_score, predOut.dbscan_score,
                         predOut.gmm_score)

\* The default action of a tier
DefaultAction(tier) ==
    CASE tier = "normal" -> "NO_ACTION"
      [] tier = "low" -> "MONITOR"
      [] tier = "medium" -> "REQUIRE_MFA"
      [] tier \in {"high", "critical"} -> "BLOCK_IP"

\* Scores of [0, 1] in thousandths
UnitScores == 0..One

\* C17: the decision on a returned risk_score is one of the five tiers with
\* that tier's default action, and each of the five tiers is the decision for
\* some score of [0, 1]
C17_FiveTiersWithDefaultActions ==
    /\ predOut.status = "ok" =>
          /\ risk_decision(predOut.risk_score).risk_level \in RiskLevel
          /\ risk_decision(predOut.risk_score).recommended_action =
                DefaultAction(risk_decision(predOut.risk_score).risk_level)
    /\ \A tier \in RiskLevel :
          \E score \in UnitScores : risk_decision(score * WOne).risk_level = tier

\* The model that was saved into artifact f, as save() wrote its fields
SavedModel(f) == ens_load_value(f)

\* C18: a prediction of the loader for x, made from one loaded artifact,
\* returns the risk_score, the three sub-scores and is_anomaly that the saved
\* model's own predict returns for x
C18_RoundTripPredictsIdentically ==
    (PredictedFromLoaded /\ files[ldr.model_path].kind = "dict") =>
       LET o == ens_predict(SavedModel(files[ldr.model_path]), predOut.x)
       IN  o.status = "ok" =>
              /\ Round3(predOut.risk_score) = o.risk_score
              /\ predOut.isolation_forest_score = o.isolation_forest_score
              /\ predOut.dbscan_score = o.dbscan_score
              /\ predOut.gmm_score = o.gmm_score
              /\ predOut.is_anomaly = o.is_anomaly

\* C19: train() on an instance that is already trained (or was loaded as
\* trained) leaves its fitted parameters as they were, and no step writes
\* over an artifact file that exists
C19_TrainedModelAndArtifactsNeverOverwritten ==
    [][/\ (ens.is_trained /\ nextVer' # nextVer) => ens' = ens
       /\ \A p \in Paths : files[p].kind # "none" => files'[p] = files[p]]_vars

\* C20: all calls of ModelLoader() and get_model_loader() hand out one and
\* the same instance, and no construction resets components that load_model
\* had set
C20_OneInstanceNeverReset ==
    /\ Cardinality(handed.instances) <= 1
    /\ ~handed.lostLoad

\* What analyze_log answers for a prediction when the save block ends well
ResultWithPersistence(th, pred) ==
    AnalysisResultOf(pred, risk_decision_at(th, pred.risk_score), "ok")

\* C21: when the save block of analyze_log fails (database not initialized,
\* session error, insert error, commit error), the response carries the
\* status, risk_score, tier, action, flag and sub-scores it carries when the
\* save succeeds, and nothing is committed
C21_PersistenceFailureKeepsResult ==
    (anaOut.status # 0 /\ anaOut.saved # "ok") =>
       LET r == ResultWithPersistence(settings_thresholds, anaOut.predicted)
       IN  /\ anaOut.status = r.status
           /\ anaOut.risk_score = r.risk_score
           /\ anaOut.risk_level = r.risk_level
           /\ anaOut.recommended_action = r.recommended_action
           /\ anaOut.is_anomaly = r.is_anomaly
           /\ anaOut.model_scores = r.model_scores

\* A request answered 200 although an insert of its save block failed
C21_Witness ==
    /\ anaOut.status = 200
    /\ anaOut.saved = "insert_log"
    /\ anaOut.risk_level = "medium"
    /\ db_rows.logs = 0

\* C22: extract on an event record with any of its fields absent or unset
\* returns a complete 21-field vector and raises nothing
C22_ExtractNeverFailsOnMissingInput ==
    featOut.status # "none" => (featOut.status = "ok" /\ featOut.n = NumFeatures)

\* C23: the failed-auth rate an extraction gets from get_failed_auth_rate is
\* a value of [0, 1], whatever record_login_attempt calls run between the
\* query's two reads
C23_FailedAuthRateInUnitInterval ==
    \A c \in ExtractReturns :
       callOut[c].loc.readFaults = {"ok"} =>
          /\ callOut[c].loc.failed_auth_rate.num >= 0
          /\ callOut[c].loc.failed_auth_rate.num <= callOut[c].loc.failed_auth_rate.den

\* C24: get_time_since_last_activity returns the seconds between the most
\* recent recorded request of the source and as_of, a gap that is never
\* negative, when the source has history, and 0.0 when it has none
C24_TimeSinceLastIsNonNegativeGap ==
    (qOut.fn = "get_time_since_last_activity" /\ qOut.fault = "ok") =>
       LET hist == redis.z[Key("requests", qOut.source_ip)]
       IN  IF hist = {} THEN qOut.res = Frac(0, 1)
           ELSE /\ \E last \in hist :
                      /\ \A ts \in hist : ts <= last
                      /\ qOut.res = Frac(qOut.as_of - last, 1)
                /\ qOut.res.num >= 0

\* C25: asked more than 3600 seconds after the last observation of a member,
\* get_unique_ips_last_hour and get_unique_endpoints_accessed do not count
\* that member: source 10.0.0.1 and its endpoint "/" are observed at second 0
\* only
C25_SetCountersExpireByWindow ==
    (qOut.fault = "ok" /\ qOut.as_of > 3600) =>
       /\ qOut.fn = "get_unique_ips_last_hour" =>
             qOut.res.num <= Cardinality(redis.s[<<"unique_ips", "">>] \ {"10.0.0.1"})
       /\ (qOut.fn = "get_unique_endpoints_accessed" /\ qOut.source_ip = "10.0.0.1") =>
             qOut.res.num <= Cardinality(redis.s[Key("endpoints", "10.0.0.1")] \ {"/"})

\* C26: predict() flags a log is_anomaly exactly when its risk_score is at
\* or above the medium alert threshold, and the is_anomaly of the analysis
\* answer equals the flag predict() computed for the log
C26_AnalysisFlagIsPredictFlag ==
    anaOut.status = 200 =>
       /\ anaOut.predicted.is_anomaly =
             (anaOut.predicted.risk_score >= settings_thresholds.medium * WOne)
       /\ anaOut.is_anomaly = anaOut.predicted.is_anomaly

\* C27: when a train(X) completes, on a new, a trained or a loaded instance,
\* the centroid map holds one centroid, computed from that training's data,
\* for each cluster label of that training's clustering and no other entry
C27_CentroidsOfLastTrainingOnly ==
    [][(nextVer' = nextVer + 1) =>
          \E labels \in SUBSET Labels :
             ens'.cluster_centroids = [l \in Labels |-> IF l \in labels THEN nextVer ELSE 0]]_vars

\* C28: after an init_redis that failed with ConnectionError the store handle
\* is uninitialized, so that get_redis() raises RuntimeError and the next
\* init_redis() connects again; a get_redis() after close_redis() raises
\* RuntimeError, and an init_redis() that returns without raising has tested
\* the connection or returns a client whose test succeeded
C28_FailedInitLeavesHandleUninitialized ==
    /\ (qOut.fn = "init_redis" /\ qOut.fault = "ConnectionError") => redis_client = "none"
    /\ qOut.fn = "close_redis" => redis_client = "none"
    /\ (qOut.fn = "get_redis" /\ redis_client = "none") => qOut.fault = "RuntimeError"
    /\ (qOut.fn = "init_redis" /\ qOut.fault = "ok" /\ qOut.count = 0) => serverUp

\* Order of the tiers and of their actions
TierRank(level) ==
    CASE level = "normal" -> 0 [] level = "low" -> 1
      [] level = "medium" -> 2 [] level = "high" -> 3

ActionRank(action) ==
    CASE action = "NO_ACTION" -> 0 [] action = "MONITOR" -> 1
      [] action = "REQUIRE_MFA" -> 2 [] action = "BLOCK_IP" -> 3

\* C29: under any low, medium and high thresholds of [0, 1], ordered or not,
\* of two answered logs the one with the higher risk_score never gets the
\* lower tier or the lower action, and an answer has is_anomaly false exactly
\* when its tier is normal
C29_TierMonotoneInScore ==
    [][(anaCount' = anaCount + 1 /\ anaOut'.status = 200) =>
          /\ anaOut'.is_anomaly = (anaOut'.risk_level # "normal")
          /\ (anaOut.status = 200 /\
               anaOut.predicted.risk_score <= anaOut'.predicted.risk_score) =>
                 /\ TierRank(anaOut.risk_level) <= TierRank(anaOut'.risk_level)
                 /\ ActionRank(anaOut.recommended_action) <=
                       ActionRank(anaOut'.recommended_action)
          /\ (anaOut.status = 200 /\
               anaOut.predicted.risk_score >= anaOut'.predicted.risk_score) =>
                 /\ TierRank(anaOut.risk_level) >= TierRank(anaOut'.risk_level)
                 /\ ActionRank(anaOut.recommended_action) >=
                       ActionRank(anaOut'.recommended_action)]_vars

\* Two logs answered under thresholds in the opposite of their usual order,
\* the second in tier normal
C29_Witness ==
    /\ settings_thresholds.high < settings_thresholds.medium
    /\ settings_thresholds.medium < settings_thresholds.low
    /\ anaCount = 2
    /\ anaOut.status = 200
    /\ anaOut.risk_level = "normal"
    /\ ~anaOut.is_anomaly

\* C30: whatever eps the model was built with, a point whose nearest stored
\* centroid is within 2 x eps gets a dbscan_score of at most the 0.9 of an
\* outlier, from ModelLoader.predict and from AnomalyEnsemble.predict
C30_InClusterScoreAtMostOutlierScore ==
    /\ (PredictedFromLoaded
          /\ CentroidLabels(ldr.cluster_centroids) # {}
          /\ MinDist(ldr.cluster_centroids, ldr.scaler.ver, predOut.x) <= 2 * ldr.dbscan.eps)
          => predOut.dbscan_score <= 900
    /\ \A p \in Paths, x \in Vectors :
          (ens_load_status(files[p]) = "ok"
              /\ ens_predict(ens_load_value(files[p]), x).status = "ok"
              /\ CentroidLabels(files[p].cluster_centroids) # {}
              /\ MinDist(files[p].cluster_centroids, files[p].scaler.ver, x)
                    <= 2 * files[p].dbscan.eps)
             => ens_predict(ens_load_value(files[p]), x).dbscan_score <= 900

====
